---- MODULE Spec2Model ----
(***************************************************************************)
(* A model of two update paths of the repository:                          *)
(*   - AreaSeries (charts): processData (stacking + normalization) and     *)
(*     update / generateSelectionData (area, marker and label data);       *)
(*   - StatusBar (grid): onRangeSelectionChanged (range aggregation).      *)
(*                                                                         *)
(* JavaScript values are records [t, n, d, s]: t is the type tag, n/d an   *)
(* exact fraction in lowest terms (d > 0) for numbers, s the text of a     *)
(* string.  Numbers are exact rationals: IEEE-754 rounding is not          *)
(* modelled, NaN and the infinities are.                                   *)
(***************************************************************************)
EXTENDS Integers, Sequences, FiniteSets, TLC

(***************************************************************************)
(* Bounds of the model.                                                    *)
(***************************************************************************)
MaxRows == 2
MaxRanges == 2
MaxNodesCreated == 18
MaxOwnNodes == 6

(***************************************************************************)
(* JavaScript values.                                                      *)
(***************************************************************************)
Abs(i) == IF i < 0 THEN -i ELSE i

RECURSIVE GCD(_, _)
GCD(a, b) == IF b = 0 THEN a ELSE GCD(b, a % b)

V(t, n, d, s) == [t |-> t, n |-> n, d |-> d, s |-> s]

\* the fraction n/d (d # 0) in lowest terms with a positive denominator
Rat(n, d) ==
    IF d = 1 THEN V("number", n, 1, "")
    ELSE LET sn == IF d < 0 THEN -n ELSE n
             sd == Abs(d)
             g == GCD(Abs(sn), sd)
         IN  V("number", sn \div g, sd \div g, "")

Num(i) == V("number", i, 1, "")
NaN == V("NaN", 0, 1, "")
\* sign is 1 for Infinity and -1 for -Infinity
Inf(sign) == V("Infinity", sign, 1, "")
Undefined == V("undefined", 0, 1, "")
Null == V("null", 0, 1, "")
Str(s) == V("string", 0, 1, s)
\* marks a key that the row object does not have ('key in datum' is false)
Absent == V("absent", 0, 1, "")

IsNum(v) == v.t = "number"
Sign(v) == IF v.n < 0 THEN -1 ELSE IF v.n > 0 THEN 1 ELSE 0

\* the texts of the strings that parse as numbers, with their values
NumericStrings == {"1", "2", "4"}
StringValue(s) == CASE s = "1" -> 1 [] s = "2" -> 2 [] s = "4" -> 4 [] OTHER -> 0

\* ECMAScript ToNumber: undefined -> NaN, null -> 0, a string is parsed
ToNumber(v) ==
    CASE v.t = "number" \/ v.t = "NaN" \/ v.t = "Infinity" -> v
      [] v.t = "null" -> Num(0)
      [] v.t = "string" -> IF v.s \in NumericStrings THEN Num(StringValue(v.s))
                           ELSE IF v.s = "" THEN Num(0) ELSE NaN
      [] OTHER -> NaN

\* the global isFinite(value): coerces with ToNumber first
isFinite(v) == ToNumber(v).t = "number"

\* the global isNaN(value)
isNaN(v) == ToNumber(v).t = "NaN"

\* typeof value
typeof(v) ==
    CASE v.t \in {"number", "NaN", "Infinity"} -> "number"
      [] v.t = "string" -> "string"
      [] v.t = "null" -> "object"
      [] OTHER -> "undefined"

\* A double one unit in the last place above ("+1ulp") or below ("-1ulp")
\* the double nearest to n/d.  A number without such a mark stands for the
\* double nearest to its fraction.
Ulp(n, d, mark) == V("number", n, d, mark)

\* The sums of sampled doubles that are not the double nearest to the exact
\* sum: 0.1 + 0.2 = 0.30000000000000004, 0.30000000000000004 + 0.3 =
\* 0.6000000000000001 and 0.4 + 0.2 = 0.6000000000000001.
InexactSums ==
    { <<V("number", 1, 10, ""), V("number", 1, 5, ""), Ulp(3, 10, "+1ulp")>>,
      <<Ulp(3, 10, "+1ulp"), V("number", 3, 10, ""), Ulp(3, 5, "+1ulp")>>,
      <<V("number", 2, 5, ""), V("number", 1, 5, ""), Ulp(3, 5, "+1ulp")>> }

\* The quotients of sampled doubles that are not the double nearest to the
\* exact quotient: 0.30000000000000004 / 2 = 0.15000000000000002,
\* 0.6000000000000001 / 3 = 0.20000000000000004 and 0.6 / 3 =
\* 0.19999999999999998.
InexactQuotients ==
    { <<Ulp(3, 10, "+1ulp"), V("number", 2, 1, ""), Ulp(3, 20, "+1ulp")>>,
      <<Ulp(3, 5, "+1ulp"), V("number", 3, 1, ""), Ulp(1, 5, "+1ulp")>>,
      <<V("number", 3, 5, ""), V("number", 3, 1, ""), Ulp(1, 5, "-1ulp")>> }

\* arithmetic on number-typed values: IEEE special cases, the rounded
\* results listed above, exact otherwise
NumNeg(a) ==
    CASE a.t = "number" -> V("number", -a.n, a.d, "")
      [] a.t = "Infinity" -> Inf(-a.n)
      [] OTHER -> NaN

NumAdd(a, b) ==
    CASE a.t = "number" /\ b.t = "number" ->
            IF a.d = 1 /\ b.d = 1 THEN V("number", a.n + b.n, 1, "")
            ELSE IF \E e \in InexactSums : {e[1], e[2]} = {a, b}
                 THEN (CHOOSE e \in InexactSums : {e[1], e[2]} = {a, b})[3]
                 ELSE Rat(a.n * b.d + b.n * a.d, a.d * b.d)
      [] a.t = "NaN" \/ b.t = "NaN" -> NaN
      [] a.t = "Infinity" /\ b.t = "Infinity" -> IF a.n = b.n THEN a ELSE NaN
      [] a.t = "Infinity" -> a
      [] b.t = "Infinity" -> b
      [] OTHER -> Rat(a.n * b.d + b.n * a.d, a.d * b.d)

NumMul(a, b) ==
    CASE a.t = "number" /\ b.t = "number" -> Rat(a.n * b.n, a.d * b.d)
      [] a.t = "NaN" \/ b.t = "NaN" -> NaN
      [] a.t = "Infinity" \/ b.t = "Infinity" ->
            IF Sign(a) * Sign(b) = 0 THEN NaN ELSE Inf(Sign(a) * Sign(b))
      [] OTHER -> Rat(a.n * b.n, a.d * b.d)

NumDiv(a, b) ==
    CASE a.t = "NaN" \/ b.t = "NaN" -> NaN
      [] a.t = "Infinity" /\ b.t = "Infinity" -> NaN
      [] a.t = "Infinity" -> Inf(IF Sign(b) < 0 THEN -a.n ELSE a.n)
      [] b.t = "Infinity" -> Num(0)
      [] b.n = 0 -> IF a.n = 0 THEN NaN ELSE Inf(Sign(a))
      [] \E e \in InexactQuotients : e[1] = a /\ e[2] = b ->
            (CHOOSE e \in InexactQuotients : e[1] = a /\ e[2] = b)[3]
      [] OTHER -> Rat(a.n * b.d, a.d * b.n)

\* a < b on number-typed values; any comparison with NaN is false
NumLt(a, b) ==
    CASE a.t = "number" /\ b.t = "number" -> a.n * b.d < b.n * a.d
      [] a.t = "NaN" \/ b.t = "NaN" -> FALSE
      [] a.t = "Infinity" /\ b.t = "Infinity" -> a.n < b.n
      [] a.t = "Infinity" -> a.n < 0
      [] b.t = "Infinity" -> b.n > 0
      [] OTHER -> a.n * b.d < b.n * a.d

\* the operators as applied to values that are not strings: both operands
\* are converted with ToNumber (a string operand of + would concatenate;
\* no string reaches an arithmetic operator in the modelled code paths)
JsAdd(a, b) == NumAdd(ToNumber(a), ToNumber(b))
JsMul(a, b) == NumMul(ToNumber(a), ToNumber(b))
JsDiv(a, b) == NumDiv(ToNumber(a), ToNumber(b))
JsNeg(a) == NumNeg(ToNumber(a))
JsLt(a, b) == NumLt(ToNumber(a), ToNumber(b))
JsGt(a, b) == NumLt(ToNumber(b), ToNumber(a))

\* truthiness of a value (used by 'normalizedTo && ...' and 'value ? ...')
Truthy(v) ==
    CASE v.t = "number" -> v.n # 0
      [] v.t = "Infinity" -> TRUE
      [] v.t = "string" -> v.s # ""
      [] OTHER -> FALSE


(***************************************************************************)
(* AreaSeries: inputs.                                                     *)
(***************************************************************************)
\* the value keys that data rows carry
Keys == {"a", "b"}

\* values of _xKey: '' after construction, or the category key
XKeys == {"", "x"}

\* values of _yKeys
YKeyLists == {<<>>, <<"a">>, <<"b">>, <<"a", "b">>, <<"b", "a">>}

\* a data row: an object with a category under "x" and values under Keys
Row(x, a, b) == [x |-> x, a |-> a, b |-> b]

\* The sampled rows: mixed signs, two values of one sign, zeros alone and
\* beside a negative or a positive value, values that are not finite
\* numbers (NaN, Infinity, a string), a missing value key, null, and a
\* missing category key.  Numeric strings are not sampled.
Rows ==
    { Row(Str("Jan"), Num(4), Num(-1)),
      Row(Str("Jan"), Num(4), Num(1)),
      Row(Str("Feb"), Num(-3), Num(-1)),
      Row(Str("Jan"), Num(0), Num(0)),
      Row(Str("Feb"), Num(0), Num(-1)),
      Row(Str("Feb"), Num(0), Num(4)),
      Row(Str("Mar"), NaN, Num(4)),
      Row(Str("Mar"), Inf(1), Num(-1)),
      Row(Str("Mar"), Absent, Num(1)),
      Row(Str("Apr"), Null, Num(-1)),
      Row(Str("Apr"), Str("abc"), Num(0)),
      Row(Absent, Num(1), Num(-3)) }

\* The rows sampled for the extent: the two rows of the documented example,
\* a row of zeros, a row of positive and a row of negative values.
ExtentRows ==
    { Row(Str("Jan"), Num(5), Num(-3)),
      Row(Str("Feb"), Num(10), Num(-15)),
      Row(Str("Mar"), Num(0), Num(0)),
      Row(Str("Apr"), Num(7), Num(2)),
      Row(Str("May"), Num(-2), Num(-6)) }

RECURSIVE SeqsUpTo(_, _)
SeqsUpTo(S, n) ==
    IF n = 0 THEN {<<>>}
    ELSE LET shorter == SeqsUpTo(S, n - 1)
         IN  shorter \cup {Append(q, e) : q \in {r \in shorter : Len(r) = n - 1}, e \in S}

DataSets == SeqsUpTo(Rows, MaxRows)
ExtentDataSets == SeqsUpTo(ExtentRows, MaxRows)

\* normalizedTo after its setter: undefined, or the absolute value given
NormTargets == {Undefined, Num(10), Inf(1)}

\* 'key in datum'
HasKey(datum, key) ==
    CASE key = "x" -> datum.x # Absent
      [] key = "a" -> datum.a # Absent
      [] key = "b" -> datum.b # Absent
      [] OTHER -> FALSE

\* datum[key]: undefined when the row has no such key
Lookup(datum, key) ==
    LET v == CASE key = "x" -> datum.x
               [] key = "a" -> datum.a
               [] key = "b" -> datum.b
               [] OTHER -> Absent
    IN  IF v = Absent THEN Undefined ELSE v

\* seriesItemEnabled.get(key): undefined (falsy) for a key not in the map
EnabledGet(enabled, key) == key \in DOMAIN enabled /\ enabled[key]

SeqRange(q) == {q[i] : i \in 1..Len(q)}

(***************************************************************************)
(* AreaSeries.processData                                                  *)
(***************************************************************************)
\* (variant: a row without the category key gets no entry)
BuildXData_RowsWithKey(rows, key) ==
    LET kept == SelectSeq(rows, LAMBDA datum : HasKey(datum, key))
    IN  [i \in 1..Len(kept) |-> Lookup(kept[i], key)]

\* lines 254-260: xData is datum[xKey] of every row
BuildXData(rows, key) == [i \in 1..Len(rows) |-> Lookup(rows[i], key)]

\* line 269: the value kept for one (row, yKey)
YValue(value, enabled, yKey) ==
    IF isFinite(value) /\ EnabledGet(enabled, yKey) THEN value ELSE Num(0)

\* (variant: the value keys are read in reverse order)
BuildYData_ReversedKeys(rows, keys, enabled) ==
    [i \in 1..Len(rows) |->
        [j \in 1..Len(keys) |->
            YValue(Lookup(rows[i], keys[Len(keys) + 1 - j]), enabled, keys[Len(keys) + 1 - j])]]

\* lines 262-270: yData before normalization
BuildYData(rows, keys, enabled) ==
    [i \in 1..Len(rows) |->
        [j \in 1..Len(keys) |-> YValue(Lookup(rows[i], keys[j]), enabled, keys[j])]]

\* util/array findMinMax: the totals of the negative and of the other values
RECURSIVE findMinMax(_)
findMinMax(values) ==
    IF values = <<>> THEN [min |-> Num(0), max |-> Num(0)]
    ELSE LET n == Len(values)
             rest == findMinMax(SubSeq(values, 1, n - 1))
             value == values[n]
         IN  IF JsLt(value, Num(0))
             THEN [min |-> JsAdd(rest.min, value), max |-> rest.max]
             ELSE [min |-> rest.min, max |-> JsAdd(rest.max, value)]

\* (variant: the totals of the first row are taken, later rows are not compared)
findLargestMinMax_FirstTotals(totals) ==
    IF totals = <<>> THEN [min |-> Num(0), max |-> Num(0)]
    ELSE totals[1]

\* lines 313-327
RECURSIVE findLargestMinMax(_)
findLargestMinMax(totals) ==
    IF totals = <<>> THEN [min |-> Num(0), max |-> Num(0)]
    ELSE LET n == Len(totals)
             rest == findLargestMinMax(SubSeq(totals, 1, n - 1))
             total == totals[n]
         IN  [min |-> IF JsLt(total.min, rest.min) THEN total.min ELSE rest.min,
              max |-> IF JsGt(total.max, rest.max) THEN total.max ELSE rest.max]

\* line 287: normalization is applied
NormalizationActive(target) == Truthy(target) /\ isFinite(target)

\* (variant: negative entries are scaled by the positive total as well)
NormalizeValue_OneTotal(y, minMax, target) ==
    IF JsLt(y, Num(0))
    THEN JsMul(JsDiv(y, minMax.max), target)
    ELSE JsMul(JsDiv(y, minMax.max), target)

\* (variant: the sign of negative entries is lost)
NormalizeValue_SignLost(y, minMax, target) ==
    IF JsLt(y, Num(0))
    THEN JsMul(JsDiv(y, minMax.min), target)
    ELSE JsMul(JsDiv(y, minMax.max), target)

\* lines 291-295: one entry of a stack, rescaled
NormalizeValue(y, minMax, target) ==
    IF JsLt(y, Num(0))
    THEN JsMul(JsDiv(JsNeg(y), minMax.min), target)
    ELSE JsMul(JsDiv(y, minMax.max), target)

\* lines 290-296
Normalize(stacks, yMinMax, target) ==
    [i \in 1..Len(stacks) |->
        [j \in 1..Len(stacks[i]) |-> NormalizeValue(stacks[i][j], yMinMax[i], target)]]

\* (variant: the normalized extent always reaches down to -target)
YExtent_AlwaysSigned(largest, target) ==
    LET yMin == IF NormalizationActive(target) THEN JsNeg(target) ELSE largest.min
        yMax == IF NormalizationActive(target) THEN target ELSE largest.max
    IN  IF yMin = Num(0) /\ yMax = Num(0) THEN <<yMin, Num(1)>> ELSE <<yMin, yMax>>

\* (variant: the [0, 0] extent is not widened)
YExtent_NotWidened(largest, target) ==
    LET yMin == IF NormalizationActive(target)
                THEN (IF JsLt(largest.min, Num(0)) THEN JsNeg(target) ELSE Num(0))
                ELSE largest.min
        yMax == IF NormalizationActive(target) THEN target ELSE largest.max
    IN  <<yMin, yMax>>

\* lines 284-304: the extent [yMin, yMax] handed to fixNumericExtent
YExtent(largest, target) ==
    LET yMin == IF NormalizationActive(target)
                THEN (IF JsLt(largest.min, Num(0)) THEN JsNeg(target) ELSE Num(0))
                ELSE largest.min
        yMax == IF NormalizationActive(target) THEN target ELSE largest.max
    IN  IF yMin = Num(0) /\ yMax = Num(0) THEN <<yMin, Num(1)>> ELSE <<yMin, yMax>>

\* lines 253-266: the console.warn calls of one pass, keysFound threaded
\* through the xData pass and then the yData pass
RECURSIVE WarnX(_, _, _)
WarnX(rows, key, st) ==
    IF rows = <<>> THEN st
    ELSE LET miss == st.keysFound /\ ~HasKey(Head(rows), key)
         IN  WarnX(Tail(rows), key,
                   [keysFound |-> st.keysFound /\ ~miss,
                    warnings |-> st.warnings + (IF miss THEN 1 ELSE 0)])

RECURSIVE WarnKeys(_, _, _)
WarnKeys(datum, keys, st) ==
    IF keys = <<>> THEN st
    ELSE LET miss == st.keysFound /\ ~HasKey(datum, Head(keys))
         IN  WarnKeys(datum, Tail(keys),
                      [keysFound |-> st.keysFound /\ ~miss,
                       warnings |-> st.warnings + (IF miss THEN 1 ELSE 0)])

RECURSIVE WarnY(_, _, _)
WarnY(rows, keys, st) ==
    IF rows = <<>> THEN st
    ELSE WarnY(Tail(rows), keys, WarnKeys(Head(rows), keys, st))

\* (variant: the yData pass starts with a flag of its own)
Warnings_FlagPerArray(rows, key, keys) ==
    WarnY(rows, keys, [keysFound |-> TRUE,
                       warnings |-> WarnX(rows, key, [keysFound |-> TRUE,
                                                      warnings |-> 0]).warnings]).warnings

\* lines 253-266: the number of console.warn calls of one pass
Warnings(rows, key, keys) ==
    WarnY(rows, keys, WarnX(rows, key, [keysFound |-> TRUE, warnings |-> 0])).warnings


(***************************************************************************)
(* AreaSeries.generateSelectionData                                        *)
(***************************************************************************)
\* index of the first occurrence of d in the domain, counted from 0
RECURSIVE IndexOf(_, _, _)
IndexOf(domain, d, k) ==
    IF k > Len(domain) THEN -1
    ELSE IF domain[k] = d THEN k - 1 ELSE IndexOf(domain, d, k + 1)

\* the category axis' band scale over the domain xData: 20 pixels per band
xScaleConvert(domain, d) == Num(20 * IndexOf(domain, d, 1))
xScaleBandwidth == Num(20)

\* the value axis' linear scale: the value 0 at pixel 100, 10 pixels per
\* unit, growing upwards; it has no bandwidth
yScaleConvert(v) == JsAdd(Num(100), JsMul(Num(-10), v))

\* arr[k] = v on a JavaScript array, kept as a function on the indices set
ArrayPut(arr, k, v) == [x \in DOMAIN arr \cup {k} |-> IF x = k THEN v ELSE arr[x]]
EmptyArray == [x \in {} |-> 0]
\* arr.length
ArrayLength(arr) ==
    IF DOMAIN arr = {} THEN 0
    ELSE (CHOOSE m \in DOMAIN arr : \A x \in DOMAIN arr : x <= m) + 1

\* (variant: one running total for both signs)
RECURSIVE StackRow_SingleTotal(_, _, _, _)
StackRow_SingleTotal(yDatum, j, prevMin, prevMax) ==
    IF j > Len(yDatum) THEN <<>>
    ELSE <<[prev |-> prevMax, curr |-> yDatum[j]]>> \o
         StackRow_SingleTotal(yDatum, j + 1, prevMin, JsAdd(prevMax, yDatum[j]))

\* lines 432-492 for one row: for every j the baseline prev picked at line
\* 436 and the value curr, prevMin / prevMax threaded through the row
RECURSIVE StackRow(_, _, _, _)
StackRow(yDatum, j, prevMin, prevMax) ==
    IF j > Len(yDatum) THEN <<>>
    ELSE LET curr == yDatum[j]
             negative == JsLt(curr, Num(0))
             prev == IF negative THEN prevMin ELSE prevMax
         IN  <<[prev |-> prev, curr |-> curr]>> \o
             StackRow(yDatum, j + 1,
                      IF negative THEN JsAdd(prevMin, curr) ELSE prevMin,
                      IF negative THEN prevMax ELSE JsAdd(prevMax, curr))

\* lines 455-461: the label text (no label.formatter is installed)
LabelText(yValue) ==
    IF isFinite(yValue) THEN [kind |-> "toFixed", value |-> yValue]
    ELSE IF Truthy(yValue) THEN [kind |-> "String", value |-> yValue]
    ELSE [kind |-> "", value |-> Undefined]

\* yValue.toFixed(2) is a TypeError when isFinite lets null through
LabelThrows(yValue) == isFinite(yValue) /\ typeof(yValue) # "number"

\* (variant: every band starts from the zero baseline, areas are not stacked)
RowGeometry_BaselineBottom(x, stack) ==
    [j \in 1..Len(stack) |->
        [top |-> [x |-> x, y |-> yScaleConvert(JsAdd(stack[j].prev, stack[j].curr))],
         bottom |-> [x |-> x, y |-> yScaleConvert(Num(0))]]]

\* lines 430, 437, 485 for one row: the top and bottom point of every value
\* key; x is the row's pixel position, stack the row's StackRow
RowGeometry(x, stack) ==
    [j \in 1..Len(stack) |->
        [top |-> [x |-> x, y |-> yScaleConvert(JsAdd(stack[j].prev, stack[j].curr))],
         bottom |-> [x |-> x, y |-> yScaleConvert(stack[j].prev)]]]

\* lines 427-437: the geometry of every row i (from 0) and value key j (from 1)
Geometry(xs, ys) ==
    [i \in 0..(Len(xs) - 1) |->
        RowGeometry(JsAdd(xScaleConvert(xs, xs[i + 1]), JsDiv(xScaleBandwidth, Num(2))),
                    StackRow(ys[i + 1], 1, Num(0), Num(0)))]

\* (variant: the bottom edge is mirrored around 2n instead of 2n - 1)
RECURSIVE AreaPoints_MirrorOffByOne(_, _, _, _)
AreaPoints_MirrorOffByOne(geo, last, j, i) ==
    IF i < 0 THEN EmptyArray
    ELSE ArrayPut(ArrayPut(AreaPoints_MirrorOffByOne(geo, last, j, i - 1), i, geo[i][j].top),
                  last + 1 - i, geo[i][j].bottom)

\* lines 481-485: the points of value key j after rows 0..i
RECURSIVE AreaPoints(_, _, _, _)
AreaPoints(geo, last, j, i) ==
    IF i < 0 THEN EmptyArray
    ELSE ArrayPut(ArrayPut(AreaPoints(geo, last, j, i - 1), i, geo[i][j].top),
                  last - i, geo[i][j].bottom)

\* (variant: the pairs key by key instead of row by row)
CellOrder_KeyMajor(n, m) == [k \in 1..(n * m) |-> [i |-> (k - 1) % n, j |-> ((k - 1) \div n) + 1]]

\* the pairs (row i from 0, value key j from 1) in the order of the loops
CellOrder(n, m) == [k \in 1..(n * m) |-> [i |-> (k - 1) \div m, j |-> ((k - 1) % m) + 1]]

\* lines 422-495 given the geometry and the loop order
SelectionData(keys, rows, geo, order, n, m) ==
    [throws |-> \E k \in 1..Len(order) :
                    LabelThrows(Lookup(rows[order[k].i + 1], keys[order[k].j])),
     areaSelectionData |->
        [j \in 1..m |-> [itemId |-> keys[j],
                         points |-> AreaPoints(geo, n * 2 - 1, j, n - 1)]],
     markerSelectionData |->
        [k \in 1..Len(order) |->
            [index |-> order[k].i,
             itemId |-> keys[order[k].j],
             seriesDatum |-> rows[order[k].i + 1],
             yValue |-> Lookup(rows[order[k].i + 1], keys[order[k].j]),
             yKey |-> keys[order[k].j],
             point |-> geo[order[k].i][order[k].j].top,
             fill |-> (order[k].j - 1) % 6,
             stroke |-> (order[k].j - 1) % 6]],
     labelSelectionData |->
        [k \in 1..Len(order) |->
            [index |-> order[k].i,
             itemId |-> keys[order[k].j],
             point |-> geo[order[k].i][order[k].j].top,
             label |-> LabelText(Lookup(rows[order[k].i + 1], keys[order[k].j]))]]]

\* lines 407-496.  throws: a TypeError left the function (no data returned).
\* (The geometry and the loop order are computed once and then shared.)
generateSelectionData(keys, rows, xs, ys) ==
    CHOOSE sel \in
        {SelectionData(keys, rows, geo, order, Len(xs), IF Len(xs) = 0 THEN 0 ELSE Len(ys[1])) :
            geo \in {Geometry(xs, ys)},
            order \in {CellOrder(Len(xs), IF Len(xs) = 0 THEN 0 ELSE Len(ys[1]))}} : TRUE

\* Selection.setData / exit.remove / enter.append / merge: node k keeps its
\* identity and takes datum k, nodes past the data are removed, missing ones
\* are created with the identities created + 1, ...
Reconcile(nodes, selectionData, created) ==
    [k \in 1..Len(selectionData) |->
        IF k <= Len(nodes)
        THEN [id |-> nodes[k].id, datum |-> selectionData[k], visible |-> nodes[k].visible]
        ELSE [id |-> created + (k - Len(nodes)), datum |-> selectionData[k],
              visible |-> TRUE]]

\* (variant: every node is created anew)
updateFillSelection_AllFresh(nodes, areaSelectionData, created) ==
    Reconcile(<<>>, areaSelectionData, created + Len(areaSelectionData))

\* lines 498-511: setData, exit.remove, enter.append(Path), merge
updateFillSelection(nodes, areaSelectionData, created) ==
    Reconcile(nodes, areaSelectionData, created)

Entered(nodes, selectionData) ==
    IF Len(selectionData) > Len(nodes) THEN Len(selectionData) - Len(nodes) ELSE 0

(***************************************************************************)
(* StatusBar: the grid it reads.                                           *)
(***************************************************************************)
\* a row node: the cell value of the row under each column
RowNode(a, b) == [A |-> a, B |-> b]

\* The sampled grids: the displayed columns, the floating-top rows, the rows
\* of the row model and the floating-bottom rows.  The first spreads three
\* rows of one column over the three containers; the second holds two body
\* rows of two columns, negative numbers beside a numeric and another
\* string; the third holds no number at all, a null and a NaN; the fourth
\* has pinned rows around an empty body.
SampleGrids ==
    { [columns |-> <<"A">>,
       top |-> <<RowNode(Num(1), Absent)>>,
       body |-> <<RowNode(Num(2), Absent)>>,
       bottom |-> <<RowNode(Num(3), Absent)>>],
      [columns |-> <<"A", "B">>,
       top |-> <<>>,
       body |-> <<RowNode(Num(-2), Str("4")), RowNode(Num(-3), Str("abc"))>>,
       bottom |-> <<>>],
      [columns |-> <<"A">>,
       top |-> <<>>,
       body |-> <<RowNode(Null, Absent)>>,
       bottom |-> <<RowNode(NaN, Absent)>>],
      [columns |-> <<"A">>,
       top |-> <<RowNode(Num(5), Absent)>>,
       body |-> <<>>,
       bottom |-> <<RowNode(Num(-7), Absent)>>] }

\* the column lists a cell range can carry: the leading displayed columns
ColumnLists(columns) == {SubSeq(columns, 1, n) : n \in 1..Len(columns)}

\* GridRow: floating is "top", "bottom" or "" (not floating); rowIndex from 0
GridRow(rowIndex, floating) == [rowIndex |-> rowIndex, floating |-> floating]
NullRow == [rowIndex |-> -1, floating |-> "null"]

GridRowsOf(top, body, bottom) ==
    {GridRow(i - 1, "top") : i \in 1..Len(top)}
    \cup {GridRow(i - 1, "") : i \in 1..Len(body)}
    \cup {GridRow(i - 1, "bottom") : i \in 1..Len(bottom)}

\* a cell range: start and end rows in either order, and its columns
CellRange(start, end, columns) == [start |-> start, end |-> end, columns |-> columns]

CellRangesOf(columns, top, body, bottom) ==
    {CellRange(s, e, c) : s \in GridRowsOf(top, body, bottom),
                          e \in GridRowsOf(top, body, bottom),
                          c \in ColumnLists(columns)}

\* GridRow.before: this row comes before (or is) the other row
before(this, other) ==
    CASE this.floating = "top" /\ other.floating # "top" -> TRUE
      [] this.floating = "bottom" /\ other.floating # "bottom" -> FALSE
      [] this.floating = "" /\ other.floating = "top" -> FALSE
      [] this.floating = "" /\ other.floating = "bottom" -> TRUE
      [] OTHER -> this.rowIndex <= other.rowIndex

\* GridRow.equals
equals(this, other) == this.rowIndex = other.rowIndex /\ this.floating = other.floating

\* GridRow.getGridCell(column).createId()
createId(gridRow, column) == <<gridRow.rowIndex, gridRow.floating, column>>

\* the row container a grid row lives in
ContainerRows(top, body, bottom, floating) ==
    CASE floating = "top" -> top
      [] floating = "bottom" -> bottom
      [] OTHER -> body

\* CellNavigationService.getRowBelow: the next row of the one logical
\* sequence floating-top, body, floating-bottom; null after the last row
getRowBelow(top, body, bottom, row) ==
    IF row.rowIndex + 1 < Len(ContainerRows(top, body, bottom, row.floating))
    THEN GridRow(row.rowIndex + 1, row.floating)
    ELSE CASE row.floating = "top" /\ Len(body) > 0 -> GridRow(0, "")
           [] row.floating = "top" /\ Len(bottom) > 0 -> GridRow(0, "bottom")
           [] row.floating = "" /\ Len(bottom) > 0 -> GridRow(0, "bottom")
           [] OTHER -> NullRow

(***************************************************************************)
(* StatusBar.onRangeSelectionChanged                                       *)
(***************************************************************************)
\* (variant: every row is looked up in the row model)
getRowNode_RowModelOnly(top, body, bottom, gridRow) == body[gridRow.rowIndex + 1]

\* lines 143-152: the row node of a grid row, from the model of its container
getRowNode(top, body, bottom, gridRow) ==
    ContainerRows(top, body, bottom, gridRow.floating)[gridRow.rowIndex + 1]

\* ValueService.getValue(column, rowNode)
getValue(column, rowNode) == IF column = "A" THEN rowNode.A ELSE rowNode.B

\* (variant: the extremes are seeded with +Infinity and -Infinity)
StartOfPass_SeededAtInfinity ==
    [sum |-> Num(0), count |-> 0, min |-> Inf(1), max |-> Inf(-1),
     cellsSoFar |-> {}, threw |-> FALSE, rows |-> <<>>, reads |-> <<>>]

\* lines 66-71: the accumulators at the start of a pass; rows and reads log
\* the rows the loop of line 86 has entered and the values line 97 has read
StartOfPass == [sum |-> Num(0), count |-> 0, min |-> Num(0), max |-> Num(0),
                cellsSoFar |-> {}, threw |-> FALSE, rows |-> <<>>, reads |-> <<>>]

\* lines 99-101: a string value is converted with Number(value)
Coerce(value) == IF typeof(value) = "string" THEN ToNumber(value) ELSE value

\* (variant: a cell is aggregated every time a range covers it)
AggregateCell_EveryVisit(acc, top, body, bottom, currentRow, column) ==
    LET read == getValue(column, getRowNode(top, body, bottom, currentRow))
        value == Coerce(read)
        numeric == typeof(value) = "number" /\ ~isNaN(value)
    IN  [sum |-> IF numeric THEN NumAdd(acc.sum, value) ELSE acc.sum,
         count |-> acc.count + 1,
         min |-> IF numeric /\ NumLt(value, acc.min) THEN value ELSE acc.min,
         max |-> IF numeric /\ NumLt(acc.max, value) THEN value ELSE acc.max,
         cellsSoFar |-> acc.cellsSoFar \cup {createId(currentRow, column)},
         threw |-> acc.threw,
         rows |-> acc.rows,
         reads |-> Append(acc.reads, [row |-> currentRow, column |-> column,
                                      value |-> read])]

\* (variant: only the cells that hold a number are counted)
AggregateCell_NumbersCounted(acc, top, body, bottom, currentRow, column) ==
    IF createId(currentRow, column) \in acc.cellsSoFar THEN acc
    ELSE LET read == getValue(column, getRowNode(top, body, bottom, currentRow))
             value == Coerce(read)
             numeric == typeof(value) = "number" /\ ~isNaN(value)
         IN  [sum |-> IF numeric THEN NumAdd(acc.sum, value) ELSE acc.sum,
              count |-> IF numeric THEN acc.count + 1 ELSE acc.count,
              min |-> IF numeric /\ NumLt(value, acc.min) THEN value ELSE acc.min,
              max |-> IF numeric /\ NumLt(acc.max, value) THEN value ELSE acc.max,
              cellsSoFar |-> acc.cellsSoFar \cup {createId(currentRow, column)},
              threw |-> acc.threw,
              rows |-> acc.rows,
              reads |-> Append(acc.reads, [row |-> currentRow, column |-> column,
                                           value |-> read])]

\* lines 88-115: one cell of the walk
AggregateCell(acc, top, body, bottom, currentRow, column) ==
    IF createId(currentRow, column) \in acc.cellsSoFar THEN acc
    ELSE LET read == getValue(column, getRowNode(top, body, bottom, currentRow))
             value == Coerce(read)
             numeric == typeof(value) = "number" /\ ~isNaN(value)
         IN  [sum |-> IF numeric THEN NumAdd(acc.sum, value) ELSE acc.sum,
              count |-> acc.count + 1,
              min |-> IF numeric /\ NumLt(value, acc.min) THEN value ELSE acc.min,
              max |-> IF numeric /\ NumLt(acc.max, value) THEN value ELSE acc.max,
              cellsSoFar |-> acc.cellsSoFar \cup {createId(currentRow, column)},
              threw |-> acc.threw,
              rows |-> acc.rows,
              reads |-> Append(acc.reads, [row |-> currentRow, column |-> column,
                                           value |-> read])]

\* line 87: the columns of the range, in order, for one row
RECURSIVE AggregateRow(_, _, _, _, _, _)
AggregateRow(acc, top, body, bottom, currentRow, columns) ==
    IF columns = <<>> THEN acc
    ELSE AggregateRow(AggregateCell(acc, top, body, bottom, currentRow, Head(columns)),
                      top, body, bottom, currentRow, Tail(columns))

\* lines 86-124: the walk from currentRow down to lastRow; stepping past the
\* last row of the grid leaves a null row, whose use is a TypeError
RECURSIVE WalkRows(_, _, _, _, _, _, _)
WalkRows(acc, top, body, bottom, currentRow, lastRow, columns) ==
    IF currentRow = NullRow THEN [acc EXCEPT !.threw = TRUE]
    ELSE LET entered == [acc EXCEPT !.rows = Append(@, currentRow)]
         IN  IF equals(currentRow, lastRow)
             THEN AggregateRow(entered, top, body, bottom, currentRow, columns)
             ELSE WalkRows(AggregateRow(entered, top, body, bottom, currentRow, columns),
                           top, body, bottom,
                           getRowBelow(top, body, bottom, currentRow), lastRow, columns)

\* (variant: the walk starts at the later of the two rows)
FirstRow_LaterRow(cellRange) ==
    IF before(cellRange.start, cellRange.end) THEN cellRange.end ELSE cellRange.start

\* (variant: the walk starts at the start row whatever the order)
FirstRow_StartAssumed(cellRange) == cellRange.start

\* lines 78-83: the row the walk starts at
FirstRow(cellRange) ==
    IF before(cellRange.start, cellRange.end) THEN cellRange.start ELSE cellRange.end

\* lines 78-84: the row the walk ends at
LastRow(cellRange) ==
    IF before(cellRange.start, cellRange.end) THEN cellRange.end ELSE cellRange.start

\* (variant: each range starts with a fresh set of counted cells)
RECURSIVE AggregateRanges_FreshSetPerRange(_, _, _, _, _)
AggregateRanges_FreshSetPerRange(acc, top, body, bottom, cellRanges) ==
    IF cellRanges = <<>> \/ acc.threw THEN acc
    ELSE AggregateRanges_FreshSetPerRange(
            WalkRows([acc EXCEPT !.cellsSoFar = {}], top, body, bottom,
                     FirstRow(Head(cellRanges)), LastRow(Head(cellRanges)),
                     Head(cellRanges).columns),
            top, body, bottom, Tail(cellRanges))

\* lines 75-126: the ranges in order, one set of counted cells for them all
RECURSIVE AggregateRanges(_, _, _, _, _)
AggregateRanges(acc, top, body, bottom, cellRanges) ==
    IF cellRanges = <<>> \/ acc.threw THEN acc
    ELSE AggregateRanges(
            WalkRows(acc, top, body, bottom, FirstRow(Head(cellRanges)),
                     LastRow(Head(cellRanges)), Head(cellRanges).columns),
            top, body, bottom, Tail(cellRanges))

\* lines 66-69: the local variables of the handler
Locals(acc) == [sum |-> acc.sum, count |-> acc.count, min |-> acc.min, max |-> acc.max]

\* (variant: a single cell is reported as well)
GotResult_AtLeastOne(count) == count > 0

\* line 130
GotResult(count) == count > 1

StatusItemNames == {"sum", "count", "min", "max", "average"}

(***************************************************************************)
(* AreaSeries: state.                                                      *)
(***************************************************************************)
VARIABLES
    xKey,               \* _xKey
    yKeys,              \* _yKeys
    seriesItemEnabled,  \* Map<string, boolean>, a function on the keys set
    data,               \* the rows given to the series (<<>>: none)
    normalizedTo,       \* _normalizedTo
    xData,
    yData,
    yDataUnscaled,      \* this.yData as built at line 270, before line 290
    yDomain,            \* the extent handed to fixNumericExtent at line 306
    processDataResult,  \* "none" before the first pass, else the value returned
    warnings,           \* console.warn calls of the last pass
    chart,              \* "none", "ready", "layoutPending" or "dataPending"
    visible,            \* the series' visible flag
    axes,               \* xAxis and yAxis are both set
    markerEnabled,      \* marker.enabled
    labelEnabled,       \* label.enabled
    groupVisible,       \* group.visible
    fillSelection,      \* the retained nodes of each layer, in order
    strokeSelection,
    markerSelection,
    labelSelection,
    markerSelectionData,
    nodesCreated,       \* scene nodes created so far (node identities)
    updateThrew,        \* the last update ended in a TypeError
    displayedColumns,       \* the columns of the grid, in display order
    floatingTopRowData,     \* FloatingRowModel.getFloatingTopRowData()
    rowModelRows,           \* the rows IRowModel.getRow(i) returns
    floatingBottomRowData,  \* FloatingRowModel.getFloatingBottomRowData()
    cellRanges,             \* RangeController.getCellRanges()
    statusItems,            \* per status item its value and visibility
    pass,                   \* sum, count, min and max at line 130 of the last pass
    passThrew,              \* the last aggregation pass ended in a TypeError
    passLog,                \* the rows entered and the values read by the last pass
    lastYKeysCall           \* the argument of the last call of the yKeys setter
                            \* and the parity of the number of calls

areaVars == <<xKey, yKeys, seriesItemEnabled, data, normalizedTo, xData, yData,
              yDataUnscaled, yDomain, processDataResult, warnings>>

sceneVars == <<chart, visible, axes, markerEnabled, labelEnabled, groupVisible,
               fillSelection, strokeSelection, markerSelection, labelSelection,
               markerSelectionData, nodesCreated, updateThrew>>

gridVars == <<displayedColumns, floatingTopRowData, rowModelRows, floatingBottomRowData>>

statusVars == <<cellRanges, statusItems, pass, passThrew, passLog>>

callVars == <<lastYKeysCall>>

vars == <<areaVars, sceneVars, gridVars, statusVars, callVars>>

\* lines 41-57: the status items as created, hidden and without a value
StatusBarCreated ==
    /\ cellRanges = <<>>
    /\ statusItems = [item \in StatusItemNames |-> [value |-> Undefined, visible |-> FALSE]]
    /\ pass = Locals(StartOfPass)
    /\ passThrew = FALSE
    /\ passLog = [rows |-> <<>>, reads |-> <<>>]

\* lines 95-109, 144-157: the series as constructed
AreaSeriesConstructed ==
    /\ xKey = ""
    /\ yKeys = <<>>
    /\ seriesItemEnabled = [k \in {} |-> TRUE]
    /\ data = <<>>
    /\ normalizedTo = Undefined
    /\ xData = <<>>
    /\ yData = <<>>
    /\ yDataUnscaled = <<>>
    /\ yDomain = <<>>
    /\ processDataResult = "none"
    /\ warnings = 0
    /\ chart = "none"
    /\ visible = TRUE
    /\ axes = FALSE
    /\ markerEnabled = FALSE
    /\ labelEnabled = FALSE
    /\ groupVisible = TRUE
    /\ fillSelection = <<>>
    /\ strokeSelection = <<>>
    /\ markerSelection = <<>>
    /\ labelSelection = <<>>
    /\ markerSelectionData = <<>>
    /\ nodesCreated = 0
    /\ updateThrew = FALSE
    /\ lastYKeysCall = [values |-> <<>>, parity |-> 0]

\* the enablement maps the yKeys setter (every key of yKeys set to true) and
\* toggleSeriesItem on those keys can leave behind
EnabledMaps(keys) == [SeqRange(keys) -> BOOLEAN]

\* data for the configurations in which line 232 ignores the rows
IgnoredDataSets == SeqsUpTo({Row(Str("Jan"), Num(4), Num(-1))}, MaxRows)

\* A configured series whose data has not been processed yet: the setters
\* (lines 168-215) have run, each clearing xData / yData, and an update has
\* found no data to show.
Init ==
    /\ xKey \in XKeys
    /\ yKeys \in YKeyLists
    /\ seriesItemEnabled \in EnabledMaps(yKeys)
    /\ data \in (IF xKey = "" \/ yKeys = <<>> THEN IgnoredDataSets ELSE DataSets)
    /\ normalizedTo \in NormTargets
    /\ xData = <<>>
    /\ yData = <<>>
    /\ yDataUnscaled = <<>>
    /\ yDomain = <<>>
    /\ processDataResult = "none"
    /\ warnings = 0
    /\ chart = "ready"
    /\ visible = TRUE
    /\ axes = TRUE
    /\ markerEnabled = TRUE
    /\ labelEnabled = TRUE
    /\ groupVisible = FALSE
    /\ fillSelection = <<>>
    /\ strokeSelection = <<>>
    /\ markerSelection = <<>>
    /\ labelSelection = <<>>
    /\ markerSelectionData = <<>>
    /\ nodesCreated = 0
    /\ updateThrew = FALSE
    /\ displayedColumns = <<>>
    /\ floatingTopRowData = <<>>
    /\ rowModelRows = <<>>
    /\ floatingBottomRowData = <<>>
    /\ StatusBarCreated
    /\ lastYKeysCall = [values |-> yKeys, parity |-> 0]

\* (variant: the rows are processed whatever the keys are)
ProcessedRows_KeysIgnored(key, keys, rows) == rows

\* line 232: the rows of a pass; none without a category key or value keys
ProcessedRows(key, keys, rows) == IF key # "" /\ Len(keys) # 0 THEN rows ELSE <<>>

\* (variant: the tables of the earlier pass are kept and the rows of this
\* pass added to them)
processData_AddsToTables ==
    \E rows \in {ProcessedRows(xKey, yKeys, data)} :
    \E built \in {BuildYData(rows, yKeys, seriesItemEnabled)} :
    \E yMinMax \in {[i \in 1..Len(built) |-> findMinMax(built[i])]} :
    \E yLargestMinMax \in {findLargestMinMax(yMinMax)} :
        /\ xData' = xData \o BuildXData(rows, xKey)
        /\ yDataUnscaled' = built
        /\ yData' = yData \o (IF NormalizationActive(normalizedTo)
                               THEN Normalize(built, yMinMax, normalizedTo)
                               ELSE built)
        /\ yDomain' = YExtent(yLargestMinMax, normalizedTo)
        /\ warnings' = Warnings(rows, xKey, yKeys)
        /\ processDataResult' = "true"
        /\ UNCHANGED <<xKey, yKeys, seriesItemEnabled, data, normalizedTo>>
        /\ UNCHANGED <<sceneVars, gridVars, statusVars, callVars>>

\* lines 230-311
processData ==
    \E rows \in {ProcessedRows(xKey, yKeys, data)} :
    \E built \in {BuildYData(rows, yKeys, seriesItemEnabled)} :
    \E yMinMax \in {[i \in 1..Len(built) |-> findMinMax(built[i])]} :
    \E yLargestMinMax \in {findLargestMinMax(yMinMax)} :
        /\ xData' = BuildXData(rows, xKey)
        /\ yDataUnscaled' = built
        /\ yData' = IF NormalizationActive(normalizedTo)
                    THEN Normalize(built, yMinMax, normalizedTo)
                    ELSE built
        /\ yDomain' = YExtent(yLargestMinMax, normalizedTo)
        /\ warnings' = Warnings(rows, xKey, yKeys)
        /\ processDataResult' = "true"
        /\ UNCHANGED <<xKey, yKeys, seriesItemEnabled, data, normalizedTo>>
        /\ UNCHANGED <<sceneVars, gridVars, statusVars, callVars>>

\* lines 513-543, 560-593: restyle the fill or stroke nodes
StyleAreaNodes(nodes) ==
    [k \in 1..Len(nodes) |->
        [id |-> nodes[k].id, datum |-> nodes[k].datum,
         visible |-> EnabledGet(seriesItemEnabled, nodes[k].datum.itemId)]]

\* lines 604-649 (marker.size > 0)
StyleMarkerNodes(nodes) ==
    [k \in 1..Len(nodes) |->
        [id |-> nodes[k].id, datum |-> nodes[k].datum,
         visible |-> markerEnabled /\ EnabledGet(seriesItemEnabled, nodes[k].datum.yKey)]]

\* lines 660-686
StyleLabelNodes(nodes) ==
    [k \in 1..Len(nodes) |->
        [id |-> nodes[k].id, datum |-> nodes[k].datum,
         visible |-> nodes[k].datum.label.kind # "" /\ labelEnabled]]

\* (variant: a pending layout or pending data does not hold the update back)
UpdateReady_PendingIgnored ==
    /\ chart # "none"
    /\ visible
    /\ axes
    /\ Len(xData) # 0
    /\ Len(yData) # 0

\* lines 378-379: the readiness guard of update
UpdateReady ==
    /\ chart = "ready"
    /\ visible
    /\ axes
    /\ Len(xData) # 0
    /\ Len(yData) # 0

\* lines 373-398, run with the marker nodes `retained` (the marker nodes
\* of the series, or none when the marker shape has just changed)
updateOver(retained) ==
    /\ groupVisible' = (visible /\ Len(xData) # 0 /\ Len(yData) # 0)
    /\ UNCHANGED <<areaVars, chart, visible, axes, markerEnabled, labelEnabled>>
    /\ UNCHANGED <<gridVars, statusVars, callVars>>
    /\ IF ~UpdateReady
       THEN /\ markerSelection' = retained
            /\ UNCHANGED <<fillSelection, strokeSelection, labelSelection,
                           markerSelectionData, nodesCreated, updateThrew>>
       ELSE \E sel \in {generateSelectionData(yKeys, data, xData, yData)} :
            IF sel.throws
            THEN /\ updateThrew' = TRUE
                 /\ markerSelection' = retained
                 /\ UNCHANGED <<fillSelection, strokeSelection,
                                labelSelection, markerSelectionData, nodesCreated>>
            ELSE \E markers \in {IF markerEnabled THEN sel.markerSelectionData ELSE <<>>} :
                 \E labels \in {IF labelEnabled THEN sel.labelSelectionData ELSE <<>>} :
                 \E c1 \in {nodesCreated + Entered(fillSelection, sel.areaSelectionData)} :
                 \E c2 \in {c1 + Entered(strokeSelection, sel.areaSelectionData)} :
                 \E c3 \in {c2 + Entered(retained, markers)} :
                 \E fills \in {updateFillSelection(fillSelection, sel.areaSelectionData,
                                                    nodesCreated)} :
                 \E strokes \in {Reconcile(strokeSelection, sel.areaSelectionData, c1)} :
                 \E markerNodes \in {Reconcile(retained, markers, c2)} :
                 \E labelNodes \in {Reconcile(labelSelection, labels, c3)} :
                     /\ updateThrew' = FALSE
                     /\ fillSelection' = StyleAreaNodes(fills)
                     /\ strokeSelection' = StyleAreaNodes(strokes)
                     /\ markerSelection' = StyleMarkerNodes(markerNodes)
                     /\ labelSelection' = StyleLabelNodes(labelNodes)
                     /\ markerSelectionData' = sel.markerSelectionData
                     /\ nodesCreated' = c3 + Entered(labelSelection, labels)

\* lines 373-398
update == updateOver(markerSelection)

Next == processData \/ update

Spec == Init /\ [][Next]_vars

(***************************************************************************)
(* AreaSeries: processData alone, over the rows sampled for the extent.    *)
(***************************************************************************)
InitExtent ==
    /\ xKey \in XKeys
    /\ yKeys \in YKeyLists
    /\ seriesItemEnabled \in EnabledMaps(yKeys)
    /\ data \in (IF xKey = "" \/ yKeys = <<>> THEN IgnoredDataSets ELSE ExtentDataSets)
    /\ normalizedTo \in NormTargets
    /\ xData = <<>>
    /\ yData = <<>>
    /\ yDataUnscaled = <<>>
    /\ yDomain = <<>>
    /\ processDataResult = "none"
    /\ warnings = 0
    /\ chart = "ready"
    /\ visible = TRUE
    /\ axes = TRUE
    /\ markerEnabled = TRUE
    /\ labelEnabled = TRUE
    /\ groupVisible = FALSE
    /\ fillSelection = <<>>
    /\ strokeSelection = <<>>
    /\ markerSelection = <<>>
    /\ labelSelection = <<>>
    /\ markerSelectionData = <<>>
    /\ nodesCreated = 0
    /\ updateThrew = FALSE
    /\ displayedColumns = <<>>
    /\ floatingTopRowData = <<>>
    /\ rowModelRows = <<>>
    /\ floatingBottomRowData = <<>>
    /\ StatusBarCreated
    /\ lastYKeysCall = [values |-> yKeys, parity |-> 0]

NextExtent == processData

SpecExtent == InitExtent /\ [][NextExtent]_vars

(***************************************************************************)
(* AreaSeries: a series in a chart, reconfigured while it is shown.        *)
(***************************************************************************)
\* the value-key lists the yKeys setter is called with
SetterYKeyLists == {<<>>, <<"a">>, <<"a", "b">>, <<"b", "a">>}

\* the data of the series: one row or two
SeriesDataSets ==
    { <<Row(Str("Jan"), Num(4), Num(-1))>>,
      <<Row(Str("Jan"), Num(4), Num(-1)), Row(Str("Feb"), Num(-3), Num(-1))>> }

\* The surroundings of the series: the chart it belongs to ("none": no
\* chart; "dataPending", "layoutPending": chart.dataPending,
\* chart.layoutPending), whether it is visible and whether both axes are set.
\* Either everything is in place or one thing is missing.
Environments ==
    { [chart |-> "ready", visible |-> TRUE, axes |-> TRUE],
      [chart |-> "none", visible |-> TRUE, axes |-> TRUE],
      [chart |-> "dataPending", visible |-> TRUE, axes |-> TRUE],
      [chart |-> "layoutPending", visible |-> TRUE, axes |-> TRUE],
      [chart |-> "ready", visible |-> FALSE, axes |-> TRUE],
      [chart |-> "ready", visible |-> TRUE, axes |-> FALSE] }

\* Series.scheduleData: the chart, if there is one, has data pending
scheduleData(c) == IF c = "none" THEN c ELSE "dataPending"

\* A series constructed with a category key and data, markers and labels
\* switched on, not yet in a chart and without value keys.
InitSeries ==
    /\ xKey = "x"
    /\ yKeys = <<>>
    /\ seriesItemEnabled = [k \in {} |-> TRUE]
    /\ data \in SeriesDataSets
    /\ normalizedTo = Undefined
    /\ xData = <<>>
    /\ yData = <<>>
    /\ yDataUnscaled = <<>>
    /\ yDomain = <<>>
    /\ processDataResult = "none"
    /\ warnings = 0
    /\ chart = "none"
    /\ visible = TRUE
    /\ axes = TRUE
    /\ markerEnabled = TRUE
    /\ labelEnabled = TRUE
    /\ groupVisible = TRUE
    /\ fillSelection = <<>>
    /\ strokeSelection = <<>>
    /\ markerSelection = <<>>
    /\ labelSelection = <<>>
    /\ markerSelectionData = <<>>
    /\ nodesCreated = 0
    /\ updateThrew = FALSE
    /\ displayedColumns = <<>>
    /\ floatingTopRowData = <<>>
    /\ rowModelRows = <<>>
    /\ floatingBottomRowData = <<>>
    /\ StatusBarCreated
    /\ lastYKeysCall = [values |-> <<>>, parity |-> 0]

\* (variant: the setter does not compare the new list with the current one)
setYKeys_Unguarded(values) ==
    /\ lastYKeysCall' = [values |-> values, parity |-> 1 - lastYKeysCall.parity]
    /\ yKeys' = values
    /\ yData' = <<>>
    /\ seriesItemEnabled' = [k \in SeqRange(values) |-> TRUE]
    /\ chart' = scheduleData(chart)
    /\ UNCHANGED <<xKey, data, normalizedTo, xData, yDataUnscaled, yDomain,
                   processDataResult, warnings>>
    /\ UNCHANGED <<visible, axes, markerEnabled, labelEnabled, groupVisible,
                   fillSelection, strokeSelection, markerSelection, labelSelection,
                   markerSelectionData, nodesCreated, updateThrew>>
    /\ UNCHANGED <<gridVars, statusVars>>

\* lines 183-194: the yKeys setter
setYKeys(values) ==
    /\ lastYKeysCall' = [values |-> values, parity |-> 1 - lastYKeysCall.parity]
    /\ IF yKeys # values
       THEN /\ yKeys' = values
            /\ yData' = <<>>
            /\ seriesItemEnabled' = [k \in SeqRange(values) |-> TRUE]
            /\ chart' = scheduleData(chart)
       ELSE UNCHANGED <<yKeys, yData, seriesItemEnabled, chart>>
    /\ UNCHANGED <<xKey, data, normalizedTo, xData, yDataUnscaled, yDomain,
                   processDataResult, warnings>>
    /\ UNCHANGED <<visible, axes, markerEnabled, labelEnabled, groupVisible,
                   fillSelection, strokeSelection, markerSelection, labelSelection,
                   markerSelectionData, nodesCreated, updateThrew>>
    /\ UNCHANGED <<gridVars, statusVars>>

\* (variant: the fill nodes of the item are shown or hidden at once)
toggleSeriesItem_RestylesNodes(itemId, enabled) ==
    /\ seriesItemEnabled' =
          [k \in DOMAIN seriesItemEnabled \cup {itemId} |->
              IF k = itemId THEN enabled ELSE seriesItemEnabled[k]]
    /\ chart' = scheduleData(chart)
    /\ fillSelection' =
          [k \in 1..Len(fillSelection) |->
              IF fillSelection[k].datum.itemId = itemId
              THEN [fillSelection[k] EXCEPT !.visible = enabled]
              ELSE fillSelection[k]]
    /\ UNCHANGED <<xKey, yKeys, data, normalizedTo, xData, yData, yDataUnscaled, yDomain,
                   processDataResult, warnings>>
    /\ UNCHANGED <<visible, axes, markerEnabled, labelEnabled, groupVisible,
                   strokeSelection, markerSelection, labelSelection,
                   markerSelectionData, nodesCreated, updateThrew>>
    /\ UNCHANGED <<gridVars, statusVars, callVars>>

\* lines 786-789: toggleSeriesItem, called for an item of the legend
toggleSeriesItem(itemId, enabled) ==
    /\ seriesItemEnabled' =
          [k \in DOMAIN seriesItemEnabled \cup {itemId} |->
              IF k = itemId THEN enabled ELSE seriesItemEnabled[k]]
    /\ chart' = scheduleData(chart)
    /\ UNCHANGED <<xKey, yKeys, data, normalizedTo, xData, yData, yDataUnscaled, yDomain,
                   processDataResult, warnings>>
    /\ UNCHANGED <<visible, axes, markerEnabled, labelEnabled, groupVisible,
                   fillSelection, strokeSelection, markerSelection, labelSelection,
                   markerSelectionData, nodesCreated, updateThrew>>
    /\ UNCHANGED <<gridVars, statusVars, callVars>>

\* the chart, the visibility or the axes of the series change
environmentChanges ==
    \E e \in Environments :
        /\ chart' = e.chart
        /\ visible' = e.visible
        /\ axes' = e.axes
        /\ UNCHANGED <<areaVars, markerEnabled, labelEnabled, groupVisible,
                       fillSelection, strokeSelection, markerSelection, labelSelection,
                       markerSelectionData, nodesCreated, updateThrew>>
        /\ UNCHANGED <<gridVars, statusVars, callVars>>

\* update, as long as the node identities last
updateWithinBound == update /\ nodesCreated' <= MaxNodesCreated

\* the series is reconfigured, processed and updated
NextSeries ==
    \/ \E values \in SetterYKeyLists : setYKeys(values)
    \/ environmentChanges
    \/ processData
    \/ updateWithinBound

SpecSeries == InitSeries /\ [][NextSeries]_vars

\* the value keys are set and legend items toggled; the data is processed
NextSetters ==
    \/ \E values \in SetterYKeyLists : setYKeys(values)
    \/ \E itemId \in SeqRange(yKeys) : \E enabled \in BOOLEAN :
           toggleSeriesItem(itemId, enabled)
    \/ environmentChanges
    \/ processData

SpecSetters == InitSeries /\ [][NextSetters]_vars

(***************************************************************************)
(* AreaSeries: every operation of the series, on one small data set.       *)
(***************************************************************************)
\* the values the normalizedTo setter is called with
SetterNormTargets == {Undefined, Num(-10)}

\* the value-key lists the yKeys setter is called with
OwnYKeyLists == {<<>>, <<"a">>}

\* the rows of the series
OwnData == <<Row(Str("Jan"), Num(4), Num(-1))>>

\* what the chart does between the calls: it has processed the data and
\* laid out
OwnEnvironments == { [chart |-> "ready", visible |-> TRUE] }

\* A series constructed and given its data, markers and labels on, in a
\* chart with both axes; no keys are set yet.
InitOwn ==
    /\ xKey = ""
    /\ yKeys = <<>>
    /\ seriesItemEnabled = [k \in {} |-> TRUE]
    /\ data = OwnData
    /\ normalizedTo = Undefined
    /\ xData = <<>>
    /\ yData = <<>>
    /\ yDataUnscaled = <<>>
    /\ yDomain = <<>>
    /\ processDataResult = "none"
    /\ warnings = 0
    /\ chart = "ready"
    /\ visible = TRUE
    /\ axes = TRUE
    /\ markerEnabled = TRUE
    /\ labelEnabled = TRUE
    /\ groupVisible = TRUE
    /\ fillSelection = <<>>
    /\ strokeSelection = <<>>
    /\ markerSelection = <<>>
    /\ labelSelection = <<>>
    /\ markerSelectionData = <<>>
    /\ nodesCreated = 0
    /\ updateThrew = FALSE
    /\ displayedColumns = <<>>
    /\ floatingTopRowData = <<>>
    /\ rowModelRows = <<>>
    /\ floatingBottomRowData = <<>>
    /\ StatusBarCreated
    /\ lastYKeysCall = [values |-> <<>>, parity |-> 0]

\* lines 168-174: the xKey setter
setXKey(value) ==
    /\ IF xKey # value
       THEN /\ xKey' = value
            /\ xData' = <<>>
            /\ chart' = scheduleData(chart)
       ELSE UNCHANGED <<xKey, xData, chart>>
    /\ UNCHANGED <<yKeys, seriesItemEnabled, data, normalizedTo, yData, yDataUnscaled,
                   yDomain, processDataResult, warnings>>
    /\ UNCHANGED <<visible, axes, markerEnabled, labelEnabled, groupVisible,
                   fillSelection, strokeSelection, markerSelection, labelSelection,
                   markerSelectionData, nodesCreated, updateThrew>>
    /\ UNCHANGED <<gridVars, statusVars, callVars>>

\* lines 208-215: the normalizedTo setter
setNormalizedTo(value) ==
    \E absValue \in {IF Truthy(value) THEN (IF IsNum(value) THEN Num(Abs(value.n)) ELSE value)
                     ELSE Undefined} :
        /\ IF normalizedTo # absValue
           THEN /\ normalizedTo' = absValue
                /\ chart' = scheduleData(chart)
           ELSE UNCHANGED <<normalizedTo, chart>>
        /\ UNCHANGED <<xKey, yKeys, seriesItemEnabled, data, xData, yData, yDataUnscaled,
                       yDomain, processDataResult, warnings>>
        /\ UNCHANGED <<visible, axes, markerEnabled, labelEnabled, groupVisible,
                       fillSelection, strokeSelection, markerSelection, labelSelection,
                       markerSelectionData, nodesCreated, updateThrew>>
        /\ UNCHANGED <<gridVars, statusVars, callVars>>

\* lines 159-165: the marker nodes are dropped and update runs
onMarkerShapeChange == updateOver(<<>>) /\ nodesCreated' <= MaxOwnNodes

\* the chart has processed its data, or the series is shown or hidden
ownEnvironmentChanges ==
    \E e \in OwnEnvironments :
        /\ chart' = e.chart
        /\ visible' = e.visible
        /\ UNCHANGED <<areaVars, axes, markerEnabled, labelEnabled, groupVisible,
                       fillSelection, strokeSelection, markerSelection, labelSelection,
                       markerSelectionData, nodesCreated, updateThrew>>
        /\ UNCHANGED <<gridVars, statusVars, callVars>>

\* update, as long as the node identities last
updateOwn == update /\ nodesCreated' <= MaxOwnNodes

NextOwn ==
    \/ \E value \in XKeys : setXKey(value)
    \/ \E values \in OwnYKeyLists : setYKeys(values)
    \/ \E value \in SetterNormTargets : setNormalizedTo(value)
    \/ \E itemId \in SeqRange(yKeys) : \E enabled \in BOOLEAN :
           toggleSeriesItem(itemId, enabled)
    \/ onMarkerShapeChange
    \/ ownEnvironmentChanges
    \/ processData
    \/ updateOwn

SpecOwn == InitOwn /\ [][NextOwn]_vars

\* the rows of the series: one row, or two of which the second has no
\* category
ToggleDataSets ==
    { <<Row(Str("Jan"), Num(4), Num(-1))>>,
      <<Row(Str("Jan"), Num(4), Num(-1)), Row(Absent, Num(1), Num(-3))>> }

\* A series constructed and given its data, markers and labels on, in a
\* chart with both axes; no keys are set yet.
InitToggle ==
    /\ xKey = ""
    /\ yKeys = <<>>
    /\ seriesItemEnabled = [k \in {} |-> TRUE]
    /\ data \in ToggleDataSets
    /\ normalizedTo = Undefined
    /\ xData = <<>>
    /\ yData = <<>>
    /\ yDataUnscaled = <<>>
    /\ yDomain = <<>>
    /\ processDataResult = "none"
    /\ warnings = 0
    /\ chart = "ready"
    /\ visible = TRUE
    /\ axes = TRUE
    /\ markerEnabled = TRUE
    /\ labelEnabled = TRUE
    /\ groupVisible = TRUE
    /\ fillSelection = <<>>
    /\ strokeSelection = <<>>
    /\ markerSelection = <<>>
    /\ labelSelection = <<>>
    /\ markerSelectionData = <<>>
    /\ nodesCreated = 0
    /\ updateThrew = FALSE
    /\ displayedColumns = <<>>
    /\ floatingTopRowData = <<>>
    /\ rowModelRows = <<>>
    /\ floatingBottomRowData = <<>>
    /\ StatusBarCreated
    /\ lastYKeysCall = [values |-> <<>>, parity |-> 0]

\* the value-key lists set while legend items are toggled
ToggleYKeyLists == {<<>>, <<"a", "b">>}

\* the keys are set, legend items toggled, the data processed and shown
NextToggle ==
    \/ \E value \in XKeys : setXKey(value)
    \/ \E values \in ToggleYKeyLists : setYKeys(values)
    \/ \E itemId \in SeqRange(yKeys) : \E enabled \in BOOLEAN :
           toggleSeriesItem(itemId, enabled)
    \/ ownEnvironmentChanges
    \/ processData
    \/ updateWithinBound

SpecToggle == InitToggle /\ [][NextToggle]_vars

\* the rows of the series whose legend items are switched
LegendDataSets ==
    { <<Row(Str("Jan"), Num(4), Num(-1))>>,
      <<Row(Str("Jan"), Num(4), Num(-1)), Row(Str("Feb"), Num(0), Num(2))>> }

\* the targets given to the normalizedTo setter
LegendNormTargets == {Undefined, Num(10)}

\* A series with its keys and data set, every item enabled, markers and
\* labels on, in a chart with both axes; the data is not processed yet.
InitLegend ==
    /\ xKey = "x"
    /\ yKeys = <<"a", "b">>
    /\ seriesItemEnabled = [k \in {"a", "b"} |-> TRUE]
    /\ data \in LegendDataSets
    /\ normalizedTo = Undefined
    /\ xData = <<>>
    /\ yData = <<>>
    /\ yDataUnscaled = <<>>
    /\ yDomain = <<>>
    /\ processDataResult = "none"
    /\ warnings = 0
    /\ chart = "dataPending"
    /\ visible = TRUE
    /\ axes = TRUE
    /\ markerEnabled = TRUE
    /\ labelEnabled = TRUE
    /\ groupVisible = TRUE
    /\ fillSelection = <<>>
    /\ strokeSelection = <<>>
    /\ markerSelection = <<>>
    /\ labelSelection = <<>>
    /\ markerSelectionData = <<>>
    /\ nodesCreated = 0
    /\ updateThrew = FALSE
    /\ displayedColumns = <<>>
    /\ floatingTopRowData = <<>>
    /\ rowModelRows = <<>>
    /\ floatingBottomRowData = <<>>
    /\ StatusBarCreated
    /\ lastYKeysCall = [values |-> <<"a", "b">>, parity |-> 0]

\* legend items are switched, the data is normalized or not, and the chart
\* processes the data and updates the series
NextLegend ==
    \/ \E itemId \in SeqRange(yKeys) : \E enabled \in BOOLEAN :
           toggleSeriesItem(itemId, enabled)
    \/ \E value \in LegendNormTargets : setNormalizedTo(value)
    \/ ownEnvironmentChanges
    \/ processData
    \/ updateWithinBound

SpecLegend == InitLegend /\ [][NextLegend]_vars

(***************************************************************************)
(* StatusBar: the range selection changes and the handler runs.            *)
(***************************************************************************)
RangeLists ==
    SeqsUpTo(CellRangesOf(displayedColumns, floatingTopRowData, rowModelRows,
                          floatingBottomRowData), MaxRanges)

InitStatusBar ==
    /\ AreaSeriesConstructed
    /\ \E grid \in SampleGrids :
        /\ displayedColumns = grid.columns
        /\ floatingTopRowData = grid.top
        /\ rowModelRows = grid.body
        /\ floatingBottomRowData = grid.bottom
    /\ StatusBarCreated

\* (variant: a pass without a result clears the values)
StatusItemsAfter_ClearedWhenHidden(items, acc) ==
    [item \in StatusItemNames |->
        [value |-> IF GotResult(acc.count)
                   THEN CASE item = "sum" -> acc.sum
                          [] item = "count" -> Num(acc.count)
                          [] item = "min" -> acc.min
                          [] item = "max" -> acc.max
                          [] OTHER -> NumDiv(acc.sum, Num(acc.count))
                   ELSE Undefined,
         visible |-> GotResult(acc.count)]]

\* lines 132-140: the values of the status items after a pass
StatusItemsAfter(items, acc) ==
    [item \in StatusItemNames |->
        [value |-> IF GotResult(acc.count)
                   THEN CASE item = "sum" -> acc.sum
                          [] item = "count" -> Num(acc.count)
                          [] item = "min" -> acc.min
                          [] item = "max" -> acc.max
                          [] OTHER -> NumDiv(acc.sum, Num(acc.count))
                   ELSE items[item].value,
         visible |-> GotResult(acc.count)]]

\* The range controller takes a new list of cell ranges and fires
\* EVENT_RANGE_SELECTION_CHANGED; the handler (lines 63-141) runs.
onRangeSelectionChanged ==
    \E ranges \in RangeLists :
    \E acc \in {AggregateRanges(StartOfPass, floatingTopRowData, rowModelRows,
                                 floatingBottomRowData, ranges)} :
        /\ cellRanges' = ranges
        /\ pass' = Locals(acc)
        /\ passThrew' = acc.threw
        /\ passLog' = [rows |-> acc.rows, reads |-> acc.reads]
        /\ statusItems' = IF acc.threw THEN statusItems
                          ELSE StatusItemsAfter(statusItems, acc)
        /\ UNCHANGED <<areaVars, sceneVars, gridVars, callVars>>

NextStatusBar == onRangeSelectionChanged

SpecStatusBar == InitStatusBar /\ [][NextStatusBar]_vars

\* The grids sampled for the order of the ranges: three body rows holding
\* the fractions 0.1, 0.2 and 0.3, and two body rows of two columns holding
\* whole numbers, a numeric and another string.
OrderGrids ==
    { [columns |-> <<"A">>,
       top |-> <<>>,
       body |-> <<RowNode(Rat(1, 10), Absent), RowNode(Rat(1, 5), Absent),
                  RowNode(Rat(3, 10), Absent)>>,
       bottom |-> <<>>],
      [columns |-> <<"A", "B">>,
       top |-> <<>>,
       body |-> <<RowNode(Num(-2), Str("4")), RowNode(Num(-3), Str("abc"))>>,
       bottom |-> <<>>] }

InitOrder ==
    /\ AreaSeriesConstructed
    /\ \E grid \in OrderGrids :
        /\ displayedColumns = grid.columns
        /\ floatingTopRowData = grid.top
        /\ rowModelRows = grid.body
        /\ floatingBottomRowData = grid.bottom
    /\ StatusBarCreated

NextOrder == onRangeSelectionChanged

SpecOrder == InitOrder /\ [][NextOrder]_vars

\* The grids sampled for the status items: two body rows of two columns,
\* and pinned rows around an empty body.
ItemGrids ==
    { [columns |-> <<"A", "B">>,
       top |-> <<>>,
       body |-> <<RowNode(Num(-2), Str("4")), RowNode(Num(-3), Str("abc"))>>,
       bottom |-> <<>>],
      [columns |-> <<"A">>,
       top |-> <<RowNode(Num(5), Absent)>>,
       body |-> <<>>,
       bottom |-> <<RowNode(Num(-7), Absent)>>] }

InitItems ==
    /\ AreaSeriesConstructed
    /\ \E grid \in ItemGrids :
        /\ displayedColumns = grid.columns
        /\ floatingTopRowData = grid.top
        /\ rowModelRows = grid.body
        /\ floatingBottomRowData = grid.bottom
    /\ StatusBarCreated

NextItems == onRangeSelectionChanged

SpecItems == InitItems /\ [][NextItems]_vars


(***************************************************************************)
(* Properties of AreaSeries.processData and generateSelectionData.         *)
(***************************************************************************)
Processed == processDataResult # "none"
KeysGiven == xKey # "" /\ yKeys # <<>>
Zero == Num(0)
IsNegative(v) == v.t = "number" /\ v.n < 0
IsPositive(v) == v.t = "number" /\ v.n > 0
IsNonNegative(v) == v.t = "number" /\ v.n >= 0

\* the sum of the entries of a row that satisfy the sign class
RECURSIVE SumOfNegative(_)
SumOfNegative(row) ==
    IF row = <<>> THEN Zero
    ELSE IF IsNegative(ToNumber(Head(row)))
         THEN NumAdd(ToNumber(Head(row)), SumOfNegative(Tail(row)))
         ELSE SumOfNegative(Tail(row))

RECURSIVE SumOfNonNegative(_)
SumOfNonNegative(row) ==
    IF row = <<>> THEN Zero
    ELSE IF IsNonNegative(ToNumber(Head(row)))
         THEN NumAdd(ToNumber(Head(row)), SumOfNonNegative(Tail(row)))
         ELSE SumOfNonNegative(Tail(row))

Magnitude(v) == IF IsNegative(v) THEN NumNeg(v) ELSE v
Larger(a, b) == IF NumLt(a, b) THEN b ELSE a

\* C1: after processData with a category key and value keys, xData and
\* yData have one entry per data row, every yData row has one entry per
\* value key, and entry j is the row's value for yKeys[j] or 0.
C1_RowValueSymmetry ==
    (Processed /\ KeysGiven) =>
        /\ Len(xData) = Len(data)
        /\ Len(yData) = Len(data)
        /\ Len(yDataUnscaled) = Len(data)
        /\ \A i \in 1..Len(data) :
            /\ Len(yData[i]) = Len(yKeys)
            /\ Len(yDataUnscaled[i]) = Len(yKeys)
            /\ xData[i] = Lookup(data[i], xKey)
            /\ \A j \in 1..Len(yKeys) :
                yDataUnscaled[i][j] \in {Zero, Lookup(data[i], yKeys[j])}

C1_Witness ==
    /\ Processed /\ KeysGiven
    /\ Len(data) = 2 /\ Len(yKeys) = 2
    /\ yDataUnscaled[1] = <<Num(-1), Num(4)>>
    /\ yKeys = <<"b", "a">>

\* C6: after processData with a finite non-zero target T, every row with a
\* non-zero number (before or after scaling) has
\* max(|sum of its negative entries|, sum of its non-negative entries) = T.
\* An entry that is NaN is neither negative nor non-negative.
C6_NormalizedMagnitude ==
    (Processed /\ NormalizationActive(normalizedTo)) =>
        \A i \in 1..Len(yData) :
            (\E j \in 1..Len(yData[i]) :
                \/ IsNegative(yData[i][j]) \/ IsPositive(yData[i][j])
                \/ IsNegative(ToNumber(yDataUnscaled[i][j]))
                \/ IsPositive(ToNumber(yDataUnscaled[i][j])))
            => Larger(Magnitude(SumOfNegative(yData[i])), SumOfNonNegative(yData[i]))
                   = normalizedTo

C6_Witness ==
    /\ Processed /\ NormalizationActive(normalizedTo)
    /\ Len(yData) = 2
    /\ yDataUnscaled[1] = <<Num(4), Num(1)>>
    /\ yData[1] = <<Num(8), Num(2)>>
    /\ yDataUnscaled[2] = <<Num(-3), Num(-1)>>
    /\ yData[2] = <<Rat(-15, 2), Rat(-5, 2)>>

\* C7: normalization rescales each row on its own and per sign: a negative
\* entry y becomes y / |sum of the row's negative entries| * T, any other
\* entry y becomes y / (sum of the row's non-negative entries) * T, negative
\* entries stay negative and positive entries stay positive; the row
\* {a: 4, b: -1} with target 10 becomes {a: 10, b: -10}.
C7_PerRowPerSignScaling ==
    (Processed /\ NormalizationActive(normalizedTo)) =>
        \A i \in 1..Len(yData) : \A j \in 1..Len(yData[i]) :
            LET y == ToNumber(yDataUnscaled[i][j])
                negMagnitude == Magnitude(SumOfNegative(yDataUnscaled[i]))
                posMagnitude == SumOfNonNegative(yDataUnscaled[i])
            IN  /\ IsNegative(y) =>
                    /\ yData[i][j] = NumMul(NumDiv(y, negMagnitude), normalizedTo)
                    /\ IsNegative(yData[i][j])
                /\ ~IsNegative(y) =>
                    /\ yData[i][j] = NumMul(NumDiv(y, posMagnitude), normalizedTo)
                    /\ ~IsNegative(yData[i][j])
                /\ IsPositive(y) => IsPositive(yData[i][j])
                /\ (yDataUnscaled[i] = <<Num(4), Num(-1)>> /\ normalizedTo = Num(10))
                       => yData[i] = <<Num(10), Num(-10)>>

C7_Witness ==
    /\ Processed /\ normalizedTo = Num(10)
    /\ yKeys = <<"a", "b">>
    /\ Len(data) = 2
    /\ data[1] = Row(Str("Jan"), Num(4), Num(-1))
    /\ yData[1] = <<Num(10), Num(-10)>>
    /\ data[2] = Row(Str("Jan"), Num(4), Num(1))
    /\ yData[2] = <<Num(8), Num(2)>>

\* C8: processData never hands on the extent [0, 0]: without normalization,
\* when there are no rows or every kept value is zero (all values zero, all
\* keys disabled, no value a finite number) the extent is [0, 1].
C8_ExtentNeverDegenerate ==
    Processed =>
        /\ yDomain # <<Zero, Zero>>
        /\ (/\ ~NormalizationActive(normalizedTo)
            /\ \A i \in 1..Len(yDataUnscaled) : \A j \in 1..Len(yDataUnscaled[i]) :
                   ToNumber(yDataUnscaled[i][j]) = Zero)
           => yDomain = <<Zero, Num(1)>>

C8_Witness ==
    /\ Processed /\ KeysGiven
    /\ normalizedTo = Undefined
    /\ Len(data) = 2
    /\ \A k \in DOMAIN seriesItemEnabled : ~seriesItemEnabled[k]
    /\ data[1] = Row(Str("Jan"), Num(4), Num(-1))
    /\ yDomain = <<Zero, Num(1)>>

\* C9 as stated: processData does not return success when xKey is empty or
\* yKeys is empty.
C9_FailureFlagOnEmptyKeys ==
    (Processed /\ ~KeysGiven) => processDataResult # "true"

\* C9 amended: processData always returns true; with an empty xKey or empty
\* yKeys it processes no rows (xData and yData are empty and the extent is
\* [0, 1], or [0, T] under normalization); otherwise xData and yData have
\* one entry per row; the extent always has two elements.
C9_AlwaysSucceeds ==
    Processed =>
        /\ processDataResult = "true"
        /\ Len(yDomain) = 2
        /\ ~KeysGiven =>
            /\ xData = <<>>
            /\ yData = <<>>
            /\ yDomain = <<Zero, IF NormalizationActive(normalizedTo)
                                 THEN normalizedTo ELSE Num(1)>>
        /\ KeysGiven => (Len(xData) = Len(data) /\ Len(yData) = Len(data))

C9_Witness ==
    /\ Processed
    /\ xKey = "" /\ yKeys = <<"a", "b">>
    /\ Len(data) = 2
    /\ processDataResult = "true"
    /\ xData = <<>>

\* C10 as stated: before normalization yData[i][j] is the row's value for
\* yKeys[j] if the key is enabled and the value is a finite number, and 0
\* otherwise (key disabled, key absent, value NaN, infinite or not a number).
C10_FiniteOrZero ==
    (Processed /\ KeysGiven) =>
        \A i \in 1..Len(yDataUnscaled) : \A j \in 1..Len(yDataUnscaled[i]) :
            LET value == Lookup(data[i], yKeys[j])
            IN  yDataUnscaled[i][j] =
                    IF EnabledGet(seriesItemEnabled, yKeys[j]) /\ value.t = "number"
                    THEN value ELSE Zero

\* C5: every area datum has 2n points without holes (n rows), and the top
\* point i and the bottom point 2n - 1 - i of row i share the x-coordinate
\* of that row.
C5_PolygonClosure ==
    \A k \in 1..Len(fillSelection) :
        LET points == fillSelection[k].datum.points
            n == Len(xData)
        IN  /\ DOMAIN points = 0..(2 * n - 1)
            /\ \A i \in 0..(n - 1) :
                /\ points[i].x = points[2 * n - 1 - i].x
                /\ points[i].x = Num(20 * IndexOf(xData, xData[i + 1], 1) + 10)

C5_Witness ==
    /\ Len(fillSelection) = 2
    /\ Len(xData) = 2
    /\ xData[1] # xData[2]
    /\ fillSelection[2].datum.points[0].x = Num(10)
    /\ fillSelection[2].datum.points[3].x = Num(10)
    /\ fillSelection[2].datum.points[1].x = Num(30)
    /\ fillSelection[2].datum.points[0].y # fillSelection[2].datum.points[3].y

(***************************************************************************)
(* StatusBar properties.                                                   *)
(***************************************************************************)
\* the position of a grid row in the one logical row sequence
Position(row) ==
    CASE row.floating = "top" -> row.rowIndex
      [] row.floating = "" -> Len(floatingTopRowData) + row.rowIndex
      [] OTHER -> Len(floatingTopRowData) + Len(rowModelRows) + row.rowIndex

AllGridRows == GridRowsOf(floatingTopRowData, rowModelRows, floatingBottomRowData)

\* the (row, column) cells a range covers, whatever the order of its ends
CellsOf(cellRange) ==
    {<<row, cellRange.columns[c]>> :
        row \in {r \in AllGridRows :
                    \/ Position(cellRange.start) <= Position(r)
                       /\ Position(r) <= Position(cellRange.end)
                    \/ Position(cellRange.end) <= Position(r)
                       /\ Position(r) <= Position(cellRange.start)},
        c \in DOMAIN cellRange.columns}

\* the distinct cells covered by at least one range of the list
CoveredCells(ranges) == UNION {CellsOf(ranges[i]) : i \in DOMAIN ranges}

\* the number a cell contributes, if it contributes one
CellNumber(cell) ==
    Coerce(getValue(cell[2], getRowNode(floatingTopRowData, rowModelRows,
                                        floatingBottomRowData, cell[1])))

NumericCells(cells) == {c \in cells : CellNumber(c).t \in {"number", "Infinity"}}

RECURSIVE SumOfCells(_)
SumOfCells(cells) ==
    IF cells = {} THEN Num(0)
    ELSE LET c == CHOOSE x \in cells : TRUE
         IN  NumAdd(CellNumber(c), SumOfCells(cells \ {c}))

\* the least of 0 and the numbers of the cells
LeastWithZero(cells) ==
    CHOOSE m \in {Num(0)} \cup {CellNumber(c) : c \in cells} :
        ~NumLt(Num(0), m) /\ \A c \in cells : ~NumLt(CellNumber(c), m)

\* the greatest of 0 and the numbers of the cells
GreatestWithZero(cells) ==
    CHOOSE m \in {Num(0)} \cup {CellNumber(c) : c \in cells} :
        ~NumLt(m, Num(0)) /\ \A c \in cells : ~NumLt(m, CellNumber(c))

AllItemsVisible == \A item \in StatusItemNames : statusItems[item].visible
AllItemsHidden == \A item \in StatusItemNames : ~statusItems[item].visible

\* the list with the start and the end of its i-th range exchanged
SwappedAt(ranges, i) ==
    [ranges EXCEPT ![i] = CellRange(ranges[i].end, ranges[i].start, ranges[i].columns)]

\* the locals a pass over the list ends with
PassOver(ranges) ==
    Locals(AggregateRanges(StartOfPass, floatingTopRowData, rowModelRows,
                           floatingBottomRowData, ranges))

\* C2: in one pass over any list of ranges, overlapping or not, every
\* distinct (row, column) cell covered by at least one range is counted
\* exactly once and contributes to sum, min and max exactly once: count is
\* the size of the union of the ranges' cells, sum the sum of the numbers in
\* that union, min and max the extremes of 0 and those numbers.
C2_CountIsUnionSize ==
    LET cells == CoveredCells(cellRanges)
    IN  /\ ~passThrew
        /\ pass.count = Cardinality(cells)
        /\ pass.sum = SumOfCells(NumericCells(cells))
        /\ pass.min = LeastWithZero(NumericCells(cells))
        /\ pass.max = GreatestWithZero(NumericCells(cells))

\* two different ranges share a cell holding a number other than 0, and
\* the pass counted it once
C2_Witness ==
    /\ Len(cellRanges) = 2
    /\ cellRanges[1] # cellRanges[2]
    /\ \E c \in CellsOf(cellRanges[1]) \cap CellsOf(cellRanges[2]) :
          CellNumber(c).t = "number" /\ CellNumber(c).n # 0
    /\ CellsOf(cellRanges[1]) \ CellsOf(cellRanges[2]) # {}
    /\ CellsOf(cellRanges[2]) \ CellsOf(cellRanges[1]) # {}
    /\ pass.count = Cardinality(CoveredCells(cellRanges))
    /\ pass.count < Cardinality(CellsOf(cellRanges[1])) + Cardinality(CellsOf(cellRanges[2]))
    /\ AllItemsVisible

\* C3: the status items are set to sum, count, min, max and sum / count and
\* shown if and only if count > 1 at the end of the pass; with no range or
\* exactly one selected cell every item is hidden.
C3_ResultIffCountAboveOne ==
    /\ AllItemsVisible <=> pass.count > 1
    /\ AllItemsHidden <=> ~(pass.count > 1)
    /\ pass.count > 1 =>
          /\ statusItems["sum"].value = pass.sum
          /\ statusItems["count"].value = Num(pass.count)
          /\ statusItems["min"].value = pass.min
          /\ statusItems["max"].value = pass.max
          /\ statusItems["average"].value = NumDiv(pass.sum, Num(pass.count))
    /\ (cellRanges = <<>> \/ Cardinality(CoveredCells(cellRanges)) = 1) => AllItemsHidden

\* one cell holding a number is selected after a larger selection was
\* shown: the items are hidden
C3_Witness ==
    /\ cellRanges # <<>>
    /\ pass.count = 1
    /\ pass.sum # Num(0)
    /\ statusItems["count"].value # Undefined
    /\ AllItemsHidden

\* C4: exchanging the start and the end of any range of the list leaves
\* the result of the pass unchanged; the range from the third row back to the
\* first over one column holding 1, 2, 3 gives sum 6, count 3, min 0, max 3
\* and average 2.
C4_StartEndSwapInvariant ==
    /\ \A i \in DOMAIN cellRanges : PassOver(SwappedAt(cellRanges, i)) = pass
    /\ ( /\ cellRanges = <<CellRange(GridRow(0, "bottom"), GridRow(0, "top"), <<"A">>)>>
         /\ floatingTopRowData = <<RowNode(Num(1), Absent)>>
         /\ rowModelRows = <<RowNode(Num(2), Absent)>>
         /\ floatingBottomRowData = <<RowNode(Num(3), Absent)>> )
       => /\ AllItemsVisible
          /\ statusItems["sum"].value = Num(6)
          /\ statusItems["count"].value = Num(3)
          /\ statusItems["min"].value = Num(0)
          /\ statusItems["max"].value = Num(3)
          /\ statusItems["average"].value = Num(2)

\* the range from the third row back to the first has been aggregated
C4_Witness ==
    /\ cellRanges = <<CellRange(GridRow(0, "bottom"), GridRow(0, "top"), <<"A">>)>>
    /\ floatingTopRowData = <<RowNode(Num(1), Absent)>>
    /\ pass.count = 3
    /\ statusItems["sum"].value = Num(6)

(***************************************************************************)
(* Further properties of processData and generateSelectionData.            *)
(***************************************************************************)
\* the rows whose kept values are all numbers
NumbersOnly(row) == \A j \in 1..Len(row) : IsNum(row[j])

\* some kept value is negative
AnyNegativeValue ==
    \E i \in 1..Len(yDataUnscaled) : \E j \in 1..Len(yDataUnscaled[i]) :
        IsNegative(ToNumber(yDataUnscaled[i][j]))

\* the least of 0 and the rows' negative totals
GlobalMin ==
    CHOOSE m \in {Zero} \cup {SumOfNegative(yDataUnscaled[i]) : i \in 1..Len(yDataUnscaled)} :
        /\ ~NumLt(Zero, m)
        /\ \A i \in 1..Len(yDataUnscaled) : ~NumLt(SumOfNegative(yDataUnscaled[i]), m)

\* the greatest of 0 and the rows' non-negative totals
GlobalMax ==
    CHOOSE m \in {Zero} \cup {SumOfNonNegative(yDataUnscaled[i]) : i \in 1..Len(yDataUnscaled)} :
        /\ ~NumLt(m, Zero)
        /\ \A i \in 1..Len(yDataUnscaled) : ~NumLt(m, SumOfNonNegative(yDataUnscaled[i]))

\* the widening of the pair [0, 0] (lines 302-304)
Widened(pair) == IF pair = <<Zero, Zero>> THEN <<Zero, Num(1)>> ELSE pair

\* C16 as stated: normalization never produces an entry that is not a
\* finite number: in a row of numbers every scaled entry is a finite number
\* and an entry that was 0 stays 0.
C16_NoDivisionByZero ==
    (Processed /\ NormalizationActive(normalizedTo)) =>
        \A i \in 1..Len(yData) :
            NumbersOnly(yDataUnscaled[i]) =>
                \A j \in 1..Len(yData[i]) :
                    /\ IsNum(yData[i][j])
                    /\ yDataUnscaled[i][j] = Zero => yData[i][j] = Zero

\* C17: with a finite non-zero target T the extent is [-T, T] if some kept
\* value is negative and [0, T] otherwise, whatever the magnitudes; with a
\* target that is undefined or not finite it is the pair of the global
\* extremes (the pair [0, 0] being widened to [0, 1]).
C17_NormalizedExtent ==
    Processed =>
        /\ NormalizationActive(normalizedTo) =>
              yDomain = IF AnyNegativeValue
                        THEN <<NumNeg(normalizedTo), normalizedTo>>
                        ELSE <<Zero, normalizedTo>>
        /\ ~NormalizationActive(normalizedTo) =>
              yDomain = Widened(<<GlobalMin, GlobalMax>>)

\* a normalized pass over rows without a negative value, and large values
C17_Witness ==
    /\ Processed /\ KeysGiven
    /\ normalizedTo = Num(10)
    /\ Len(data) = 2
    /\ yDataUnscaled = <<<<Num(4), Num(1)>>, <<Num(0), Num(4)>>>>
    /\ yData[1] = <<Num(8), Num(2)>>
    /\ yDomain = <<Zero, Num(10)>>

\* C18: without normalization the extent is the most negative row minimum
\* (0 if none is negative) and the largest row maximum (0 if none is
\* positive), so min <= 0 <= max; the rows {Jan, 5, -3}, {Feb, 10, -15}
\* with value keys a, b give [-15, 10].
C18_GlobalExtreme ==
    (Processed /\ ~NormalizationActive(normalizedTo)) =>
        /\ yDomain[1] = GlobalMin
        /\ yDomain[2] = (IF GlobalMin = Zero /\ GlobalMax = Zero THEN Num(1) ELSE GlobalMax)
        /\ ~NumLt(Zero, yDomain[1])
        /\ ~NumLt(yDomain[2], Zero)
        /\ ( /\ data = <<Row(Str("Jan"), Num(5), Num(-3)), Row(Str("Feb"), Num(10), Num(-15))>>
             /\ xKey = "x" /\ yKeys = <<"a", "b">>
             /\ seriesItemEnabled["a"] /\ seriesItemEnabled["b"] )
           => yDomain = <<Num(-15), Num(10)>>

\* the documented rows have been processed
C18_Witness ==
    /\ Processed
    /\ normalizedTo = Undefined
    /\ data = <<Row(Str("Jan"), Num(5), Num(-3)), Row(Str("Feb"), Num(10), Num(-15))>>
    /\ xKey = "x" /\ yKeys = <<"a", "b">>
    /\ seriesItemEnabled = [k \in {"a", "b"} |-> TRUE]
    /\ yDomain = <<Num(-15), Num(10)>>

\* the sum of the entries before j of the row that are negative like the
\* entry j, or not negative like it
RECURSIVE PrevOfSameSign(_, _, _)
PrevOfSameSign(row, j, k) ==
    IF k = 0 THEN Zero
    ELSE IF JsLt(row[k], Zero) = JsLt(row[j], Zero)
         THEN JsAdd(PrevOfSameSign(row, j, k - 1), row[k])
         ELSE PrevOfSameSign(row, j, k - 1)

\* the update has bound fresh selection data to the nodes
SelectionBound == fillSelection # <<>>

\* C19: for every row i and value key j, with curr = yData[i][j] and prev
\* the sum of the earlier entries of the row of the same sign class, the top
\* point of key j at row i is at convert(prev + curr) and the bottom point
\* at convert(prev); entries of the other sign class do not change prev.
C19_StackingBaseline ==
    SelectionBound =>
        \A j \in 1..Len(fillSelection) : \A i \in 0..(Len(xData) - 1) :
            LET points == fillSelection[j].datum.points
                prev == PrevOfSameSign(yData[i + 1], j, j - 1)
            IN  /\ points[i].y = yScaleConvert(JsAdd(prev, yData[i + 1][j]))
                /\ points[2 * Len(xData) - 1 - i].y = yScaleConvert(prev)

\* a row with a positive and then a negative value: the negative value
\* starts from 0, not from the positive total
C19_Witness ==
    /\ SelectionBound
    /\ normalizedTo = Undefined
    /\ Len(xData) = 2
    /\ yData = <<<<Num(4), Num(-1)>>, <<Num(4), Num(1)>>>>
    /\ fillSelection[2].datum.points[0].y = Num(110)
    /\ fillSelection[2].datum.points[3].y = Num(100)
    /\ fillSelection[2].datum.points[1].y = Num(50)
    /\ fillSelection[2].datum.points[2].y = Num(60)

CellValue(cell) ==
    getValue(cell[2], getRowNode(floatingTopRowData, rowModelRows,
                                 floatingBottomRowData, cell[1]))

\* the cell holds a number other than NaN, or a string that reads as one
HoldsNumber(cell) ==
    \/ CellValue(cell).t \in {"number", "Infinity"}
    \/ CellValue(cell).t = "string" /\ ToNumber(CellValue(cell)).t # "NaN"

\* C14: every visited cell increments count whether or not it holds a
\* number; only numbers (strings converted first) other than NaN are added
\* to sum and compared with min and max; a cell without a number never
\* aborts the pass; average is sum divided by the count of all visited cells.
C14_EveryCellCounted ==
    LET cells == CoveredCells(cellRanges)
        numbers == {c \in cells : HoldsNumber(c)}
        others == cells \ numbers
    IN  /\ ~passThrew
        /\ pass.count = Cardinality(numbers) + Cardinality(others)
        /\ pass.sum = SumOfCells(numbers)
        /\ \A c \in numbers : ~NumLt(CellNumber(c), pass.min) /\ ~NumLt(pass.max, CellNumber(c))
        /\ (numbers = {}) => (pass.sum = Zero /\ pass.min = Zero /\ pass.max = Zero)
        /\ AllItemsVisible =>
              statusItems["average"].value = NumDiv(SumOfCells(numbers), Num(Cardinality(cells)))

\* two negative numbers, a numeric string and another string are selected:
\* four cells counted, three summed
C14_Witness ==
    /\ \E c \in CoveredCells(cellRanges) : CellValue(c) = Str("abc")
    /\ \E c \in CoveredCells(cellRanges) : CellValue(c) = Str("4")
    /\ pass.count = 4
    /\ pass.sum = Num(-1)
    /\ AllItemsVisible
    /\ statusItems["average"].value = Rat(-1, 4)
    /\ statusItems["count"].value = Num(4)

\* C15: min and max are seeded at 0, so min <= 0 <= max: min is the smaller
\* of 0 and the least number selected, max the larger of 0 and the greatest;
\* a selection of negative numbers reports max 0, one of positive numbers
\* min 0; the shown items carry these values.
C15_ExtremesSeededAtZero ==
    LET numbers == NumericCells(CoveredCells(cellRanges))
    IN  /\ ~NumLt(Zero, pass.min)
        /\ ~NumLt(pass.max, Zero)
        /\ pass.min = LeastWithZero(numbers)
        /\ pass.max = GreatestWithZero(numbers)
        /\ (\A c \in numbers : NumLt(CellNumber(c), Zero)) => pass.max = Zero
        /\ (\A c \in numbers : NumLt(Zero, CellNumber(c))) => pass.min = Zero
        /\ AllItemsVisible =>
              /\ statusItems["min"].value = pass.min
              /\ statusItems["max"].value = pass.max

\* two negative numbers are selected and shown with max 0
C15_Witness ==
    /\ cellRanges # <<>>
    /\ \A c \in CoveredCells(cellRanges) : CellValue(c).t = "number" /\ CellValue(c).n < 0
    /\ AllItemsVisible
    /\ statusItems["min"].value = Num(-3)
    /\ statusItems["max"].value = Zero

(***************************************************************************)
(* Properties of the setters and of update.                                *)
(***************************************************************************)
\* C11: a call of the yKeys setter with a list that differs from the
\* current one makes the new list current and re-initialises the enablement
\* map: its keys are exactly the new value keys, each enabled, whatever was
\* toggled before, and data processing is scheduled; a call with an equal
\* list leaves the list, the map with its disabled entries and the processed
\* data unchanged and schedules nothing.
C11_YKeysSetterResets ==
    [][ lastYKeysCall' # lastYKeysCall =>
          LET values == lastYKeysCall'.values
          IN  IF values # yKeys
              THEN /\ yKeys' = values
                   /\ DOMAIN seriesItemEnabled' = {values[k] : k \in 1..Len(values)}
                   /\ \A key \in DOMAIN seriesItemEnabled' : seriesItemEnabled'[key]
                   /\ chart # "none" => chart' = "dataPending"
              ELSE /\ yKeys' = yKeys
                   /\ seriesItemEnabled' = seriesItemEnabled
                   /\ yData' = yData
                   /\ chart' = chart ]_vars

\* the data was processed with the key a switched off, then the setter was
\* called with another list: every key is enabled again
C11_Witness ==
    /\ yKeys = <<"b", "a">>
    /\ lastYKeysCall.values = <<"b", "a">>
    /\ seriesItemEnabled = [k \in {"a", "b"} |-> TRUE]
    /\ yDataUnscaled = <<<<Zero, Num(-1)>>>>
    /\ yData = <<>>
    /\ chart = "dataPending"

\* something update needs is missing
NotReady == chart # "ready" \/ ~visible \/ ~axes \/ xData = <<>> \/ yData = <<>>

\* the nodes of a layer that are shown: their own flag and the group's
Shown(nodes, group) == {k \in 1..Len(nodes) : group /\ nodes[k].visible}

\* C12 as stated: when the chart is missing, layout or data is pending,
\* the series is not visible, an axis is missing or xData or yData is empty,
\* no step changes the node lists or markerSelectionData, and the retained
\* nodes stay shown as they were.
C12_NotReadyIsNoOp ==
    [][ NotReady =>
          /\ UNCHANGED <<fillSelection, strokeSelection, markerSelection, labelSelection,
                         markerSelectionData>>
          /\ Shown(fillSelection', groupVisible') = Shown(fillSelection, groupVisible)
          /\ Shown(strokeSelection', groupVisible') = Shown(strokeSelection, groupVisible)
          /\ Shown(markerSelection', groupVisible') = Shown(markerSelection, groupVisible)
          /\ Shown(labelSelection', groupVisible') = Shown(labelSelection, groupVisible) ]_vars

\* C12 amended: in those cases no step changes the node lists, the nodes'
\* own visibility or markerSelectionData; update still sets the visibility
\* of the series' group to (visible and xData and yData not empty), which
\* hides or shows the retained nodes as a whole.
C12_NotReadyKeepsNodes ==
    [][ NotReady =>
          /\ UNCHANGED <<fillSelection, strokeSelection, markerSelection, labelSelection,
                         markerSelectionData, nodesCreated>>
          /\ groupVisible' # groupVisible =>
                groupVisible' = (visible /\ xData # <<>> /\ yData # <<>>) ]_vars

\* nodes are retained, each with its own flag set, and an update of the
\* invisible series has hidden the group
C12_Witness ==
    /\ ~visible
    /\ ~groupVisible
    /\ Len(fillSelection) = 2
    /\ \A k \in 1..2 : fillSelection[k].visible
    /\ Len(markerSelection) = 4
    /\ xData # <<>> /\ yData # <<>>

\* the identities of the nodes of a layer
NodeIds(nodes) == {nodes[k].id : k \in 1..Len(nodes)}

\* the identities of all retained nodes
AllNodeIds ==
    NodeIds(fillSelection) \cup NodeIds(strokeSelection)
        \cup NodeIds(markerSelection) \cup NodeIds(labelSelection)

\* from the old to the new node list of one layer: the leading nodes are
\* the same nodes, the trailing old nodes are gone, the trailing new nodes
\* did not exist before, and no node occurs twice
Positional(old, new, existing) ==
    /\ \A k \in 1..Len(new) : k <= Len(old) => new[k].id = old[k].id
    /\ \A k \in 1..Len(new) : k > Len(old) => new[k].id \notin existing
    /\ \A k \in 1..Len(old) : k > Len(new) => old[k].id \notin NodeIds(new)
    /\ Cardinality(NodeIds(new)) = Len(new)

RowAt(position) == CHOOSE r \in AllGridRows : Position(r) = position

\* the rows from the earlier to the later end of a range, in row order
RowsBetween(cellRange) ==
    LET s == Position(cellRange.start)
        e == Position(cellRange.end)
        lo == IF s <= e THEN s ELSE e
        hi == IF s <= e THEN e ELSE s
    IN  [k \in 1..(hi - lo + 1) |-> RowAt(lo + k - 1)]

\* the rows of all ranges of a list, range after range
RECURSIVE RowsOfRanges(_)
RowsOfRanges(ranges) ==
    IF ranges = <<>> THEN <<>>
    ELSE RowsBetween(Head(ranges)) \o RowsOfRanges(Tail(ranges))

\* the value a grid holds for a row and a column, by the row's grouping
ValueInGrouping(row, column) ==
    LET rowsOfGrouping == CASE row.floating = "top" -> floatingTopRowData
                            [] row.floating = "bottom" -> floatingBottomRowData
                            [] OTHER -> rowModelRows
    IN  IF column = "A" THEN rowsOfGrouping[row.rowIndex + 1].A
        ELSE rowsOfGrouping[row.rowIndex + 1].B

\* C21: for each cell range the pass enters exactly the rows from the
\* earlier to the later endpoint, inclusive, each once and in row order,
\* crossing from pinned-top to body to pinned-bottom as one sequence, and
\* every value it reads is the value the row's own grouping holds.
C21_WalkCoversRowsInOrder ==
    /\ ~passThrew
    /\ passLog.rows = RowsOfRanges(cellRanges)
    /\ \A k \in DOMAIN passLog.reads :
          passLog.reads[k].value =
              ValueInGrouping(passLog.reads[k].row, passLog.reads[k].column)
    /\ {<<passLog.reads[k].row, passLog.reads[k].column>> : k \in DOMAIN passLog.reads}
          = CoveredCells(cellRanges)

\* a range given from the pinned-bottom row back to the pinned-top row has
\* been walked through the three groupings, each row read from its own
C21_Witness ==
    /\ cellRanges = <<CellRange(GridRow(0, "bottom"), GridRow(0, "top"), <<"A">>)>>
    /\ passLog.rows = <<GridRow(0, "top"), GridRow(0, ""), GridRow(0, "bottom")>>
    /\ Len(passLog.reads) = 3
    /\ passLog.reads[1].value = Num(1)
    /\ passLog.reads[2].value = Num(2)
    /\ passLog.reads[3].value = Num(3)

(***************************************************************************)
(* Warnings, frame and idempotence of AreaSeries.                          *)
(***************************************************************************)
\* the rows of the data that lack the category key or one of the value keys
RowsLackingKey ==
    {i \in 1..Len(data) :
        \/ ~HasKey(data[i], xKey)
        \/ \E j \in 1..Len(yKeys) : ~HasKey(data[i], yKeys[j])}

\* C22: one processData pass warns at most once, however many rows lack
\* the category key or a value key: once when any row lacks a key, not at
\* all otherwise; a missing key does not abort the pass, its x value is
\* undefined and its y value is 0.
C22_AtMostOneWarning ==
    (Processed /\ KeysGiven) =>
        /\ warnings <= 1
        /\ warnings = 1 <=> RowsLackingKey # {}
        /\ processDataResult = "true"
        /\ Len(xData) = Len(data)
        /\ Len(yDataUnscaled) = Len(data)
        /\ \A i \in 1..Len(data) :
              /\ ~HasKey(data[i], xKey) => xData[i] = Undefined
              /\ \A j \in 1..Len(yKeys) :
                    ~HasKey(data[i], yKeys[j]) => yDataUnscaled[i][j] = Zero

\* the first row lacks a value key and the second the category key: one
\* warning, and the pass went through both rows
C22_Witness ==
    /\ Processed
    /\ xKey = "x"
    /\ yKeys = <<"a", "b">>
    /\ data = <<Row(Str("Mar"), Absent, Num(1)), Row(Absent, Num(1), Num(-3))>>
    /\ seriesItemEnabled = [k \in {"a", "b"} |-> TRUE]
    /\ warnings = 1
    /\ xData = <<Str("Mar"), Undefined>>
    /\ yDataUnscaled = <<<<Zero, Num(1)>>, <<Num(1), Num(-3)>>>>

\* a retained node list is replaced in the step
ListsChange ==
    \/ fillSelection' # fillSelection
    \/ strokeSelection' # strokeSelection
    \/ markerSelection' # markerSelection
    \/ labelSelection' # labelSelection

\* C23 as stated: the four retained node lists and the enablement map are
\* changed only from within update: every step that changes one of them is
\* a step of update.
C23_OnlyUpdateMutates ==
    [][ (ListsChange \/ seriesItemEnabled' # seriesItemEnabled) => update ]_vars

\* C23 amended: the enablement map is written by the yKeys setter, which
\* resets it to the new keys, all enabled, and by toggleSeriesItem, which
\* writes one entry; neither touches a node list.  The node lists are
\* replaced by update and by onMarkerShapeChange, which write neither the
\* map nor the keys nor the data tables; the fill, stroke and label lists
\* change only when update is ready, and a marker list that changes while
\* update is not ready has been emptied by a change of the marker shape.
C23_MapAndListOwners ==
    [][ /\ seriesItemEnabled' # seriesItemEnabled =>
            /\ ~ListsChange
            /\ \/ /\ yKeys' # yKeys
                  /\ DOMAIN seriesItemEnabled' = {yKeys'[j] : j \in 1..Len(yKeys')}
                  /\ \A k \in DOMAIN seriesItemEnabled' : seriesItemEnabled'[k]
               \/ /\ yKeys' = yKeys
                  /\ DOMAIN seriesItemEnabled' = DOMAIN seriesItemEnabled
                  /\ Cardinality({k \in DOMAIN seriesItemEnabled :
                                     seriesItemEnabled'[k] # seriesItemEnabled[k]}) = 1
        /\ ListsChange =>
            /\ UNCHANGED <<seriesItemEnabled, xKey, yKeys, normalizedTo, xData, yData,
                           yDomain>>
            /\ ( \/ fillSelection' # fillSelection
                 \/ strokeSelection' # strokeSelection
                 \/ labelSelection' # labelSelection ) => ~NotReady
            /\ (NotReady /\ markerSelection' # markerSelection) => markerSelection' = <<>>
      ]_vars

\* the item a has been switched off while its fill node is still shown,
\* and a change of the marker shape has emptied the marker list while the
\* data was pending
C23_Witness ==
    /\ yKeys = <<"a">>
    /\ seriesItemEnabled = [k \in {"a"} |-> FALSE]
    /\ Len(fillSelection) = 1
    /\ fillSelection[1].visible
    /\ markerSelection = <<>>
    /\ markerEnabled
    /\ chart = "dataPending"

\* C24: in every state reached by calls of the xKey and yKeys setters,
\* toggleSeriesItem, processData and update, xData and yData have the same
\* length or one of them is empty; so whenever update is ready there is a
\* yData row for every index of xData, with an entry for every value key.
C24_TablesAligned ==
    /\ Len(xData) = Len(yData) \/ xData = <<>> \/ yData = <<>>
    /\ UpdateReady =>
          \A i \in 1..Len(xData) :
              /\ i \in DOMAIN yData
              /\ Len(yData[i]) = Len(yKeys)

\* both tables hold the two rows of the data, the second without a
\* category, and the nodes of an update are retained
C24_Witness ==
    /\ Len(data) = 2
    /\ Len(xData) = 2
    /\ Len(yData) = 2
    /\ xData[2] = Undefined
    /\ UpdateReady
    /\ Len(markerSelection) = 4

\* the number of rows between the two ends of a range, both included
RowSpan(cellRange) ==
    LET s == Position(cellRange.start)
        e == Position(cellRange.end)
    IN  (IF s <= e THEN e - s ELSE s - e) + 1

RECURSIVE RowSpans(_)
RowSpans(ranges) ==
    IF ranges = <<>> THEN 0 ELSE RowSpan(Head(ranges)) + RowSpans(Tail(ranges))

\* C25: for cell ranges whose start and end rows exist in the grid, equal
\* or in either order, the row walk ends: it enters as many rows as lie
\* between the two ends, the last row entered is the later end, and it
\* never steps past the last row of the grid to a null row.
C25_WalkEndsAtLaterRow ==
    (\A i \in DOMAIN cellRanges :
        cellRanges[i].start \in AllGridRows /\ cellRanges[i].end \in AllGridRows)
    => /\ ~passThrew
       /\ NullRow \notin {passLog.rows[k] : k \in DOMAIN passLog.rows}
       /\ Len(passLog.rows) = RowSpans(cellRanges)
       /\ cellRanges # <<>> =>
             LET last == cellRanges[Len(cellRanges)]
             IN  Position(passLog.rows[Len(passLog.rows)])
                     = (IF Position(last.start) <= Position(last.end)
                        THEN Position(last.end) ELSE Position(last.start))

\* a range of one row and a range from the last row of the grid back
\* across an empty body to the first have been walked
C25_Witness ==
    /\ rowModelRows = <<>>
    /\ Len(cellRanges) = 2
    /\ cellRanges[1].start = cellRanges[1].end
    /\ cellRanges[2].start = GridRow(0, "bottom")
    /\ cellRanges[2].end = GridRow(0, "top")
    /\ Len(passLog.rows) = 3
    /\ ~passThrew

(***************************************************************************)
(* The order of the ranges and the status items.                           *)
(***************************************************************************)
\* the permutations of 1..n
OrdersOf(n) == {f \in [1..n -> 1..n] : \A i, j \in 1..n : f[i] = f[j] => i = j}

\* the lists that hold the ranges of a list in another order, or one of
\* them a second time, in front or at the end
Rearranged(ranges) ==
    {[i \in 1..Len(ranges) |-> ranges[f[i]]] : f \in OrdersOf(Len(ranges))}
    \cup {Append(ranges, ranges[i]) : i \in DOMAIN ranges}
    \cup {<<ranges[i]>> \o ranges : i \in DOMAIN ranges}

\* what a pass over a list shows: the locals, the average and the visibility
ResultOver(ranges) ==
    LET locals == PassOver(ranges)
    IN  [sum |-> locals.sum, count |-> locals.count, min |-> locals.min,
         max |-> locals.max,
         average |-> IF locals.count > 1 THEN NumDiv(locals.sum, Num(locals.count))
                     ELSE Undefined,
         visible |-> locals.count > 1]

\* every number among the covered cells is a whole number
WholeNumbersOnly(ranges) ==
    \A c \in NumericCells(CoveredCells(ranges)) : CellNumber(c).t = "number" => CellNumber(c).d = 1

\* C26 as stated: sum, count, min, max, average and visibility of a pass
\* are the same for the ranges in any order and with a range listed twice.
C26_OrderAndDuplicatesIrrelevant ==
    /\ pass = PassOver(cellRanges)
    /\ \A other \in Rearranged(cellRanges) : ResultOver(other) = ResultOver(cellRanges)

\* C26 amended: count, min, max and the visibility are the same for the
\* ranges in any order and with a range listed twice, and count is the
\* number of cells in the union; sum and average are the same as well when
\* the numbers in the cells are whole numbers, whose additions are exact.
C26_OrderIrrelevantUpToRounding ==
    /\ pass = PassOver(cellRanges)
    /\ pass.count = Cardinality(CoveredCells(cellRanges))
    /\ \A other \in Rearranged(cellRanges) :
          /\ ResultOver(other).count = pass.count
          /\ ResultOver(other).min = pass.min
          /\ ResultOver(other).max = pass.max
          /\ ResultOver(other).visible = AllItemsVisible
          /\ WholeNumbersOnly(cellRanges) => ResultOver(other) = ResultOver(cellRanges)

\* 0.1 was added before 0.2 and 0.3: the sum is 0.6000000000000001, and
\* 0.6 with the two ranges exchanged
C26_Witness ==
    /\ Len(cellRanges) = 2
    /\ pass.count = 3
    /\ pass.sum = Ulp(3, 5, "+1ulp")
    /\ ResultOver(<<cellRanges[2], cellRanges[1]>>).sum = Rat(3, 5)
    /\ ResultOver(<<cellRanges[2], cellRanges[1]>>).count = 3
    /\ statusItems["average"].value = Ulp(1, 5, "+1ulp")

\* C27: after every pass the five status items are all shown or all
\* hidden; a pass that ends with count <= 1 hides them and leaves their
\* values as the last pass with count > 1 set them; a pass with count > 1
\* shows them and overwrites all five values with those of this pass alone,
\* which start from 0 and cover the cells of the current ranges only.
C27_ItemsShownTogether ==
    [][ /\ AllItemsVisible' \/ AllItemsHidden'
        /\ pass'.count <= 1 =>
              /\ AllItemsHidden'
              /\ \A item \in StatusItemNames :
                    statusItems'[item].value = statusItems[item].value
        /\ pass'.count > 1 =>
              /\ AllItemsVisible'
              /\ \E cells \in {CoveredCells(cellRanges')} :
                    /\ pass'.count = Cardinality(cells)
                    /\ pass'.sum = SumOfCells(NumericCells(cells))
              /\ statusItems'["sum"].value = pass'.sum
              /\ statusItems'["count"].value = Num(pass'.count)
              /\ statusItems'["min"].value = pass'.min
              /\ statusItems'["max"].value = pass'.max
              /\ statusItems'["average"].value = NumDiv(pass'.sum, Num(pass'.count))
      ]_vars

\* the selection has been cleared after the pinned rows 5 and -7 were
\* aggregated: the items are hidden and still hold the values of that pass
C27_Witness ==
    /\ cellRanges = <<>>
    /\ pass.count = 0
    /\ AllItemsHidden
    /\ statusItems["sum"].value = Num(-2)
    /\ statusItems["count"].value = Num(2)
    /\ statusItems["min"].value = Num(-7)
    /\ statusItems["max"].value = Num(5)
    /\ statusItems["average"].value = Num(-1)

\* C28: processData is idempotent: once the data has been processed, a
\* further pass over the same data, keys, enablement map and normalization
\* target leaves xData, yData and the extent as they are.
C28_ProcessDataIdempotent ==
    [][ ( /\ Processed
          /\ UNCHANGED <<data, xKey, yKeys, seriesItemEnabled, normalizedTo>> )
        => UNCHANGED <<xData, yData, yDomain>> ]_vars

\* a normalized table that differs from the values kept from the rows
\* has been shown by an update, with further passes to follow
C28_Witness ==
    /\ Processed
    /\ NormalizationActive(normalizedTo)
    /\ Len(yData) = 2
    /\ yData # yDataUnscaled
    /\ yDataUnscaled[1] = <<Num(4), Num(-1)>>
    /\ yData[1] = <<Num(10), Num(-10)>>
    /\ yDomain = <<Num(-10), Num(10)>>
    /\ Len(fillSelection) = 2

\* the nearest key before j of the row whose entry is negative like the
\* entry j, or not negative like it; 0 when there is none
NearestOfSameSign(row, j) ==
    LET same == {k \in 1..(j - 1) : JsLt(row[k], Num(0)) = JsLt(row[j], Num(0))}
    IN  IF same = {} THEN 0 ELSE CHOOSE k \in same : \A other \in same : other <= k

\* the y of the top and of the bottom point of value key j at row i (from 0)
TopY(j, i) == fillSelection[j].datum.points[i].y
BottomY(j, i) == fillSelection[j].datum.points[2 * Len(xData) - 1 - i].y

\* C29: within one row the bands of one sign class are contiguous: the
\* bottom of value key j is the top of the nearest earlier key of the same
\* sign class, or the zero baseline when there is none; a key whose entry
\* is 0 has a band of zero height, top equal to bottom, placed on the stack
\* of the non-negative entries.
C29_BandsContiguous ==
    SelectionBound =>
        \A j \in 1..Len(fillSelection) : \A i \in 0..(Len(xData) - 1) :
            LET row == yData[i + 1]
                k == NearestOfSameSign(row, j)
            IN  /\ BottomY(j, i) = IF k = 0 THEN yScaleConvert(Num(0)) ELSE TopY(k, i)
                /\ row[j] = Num(0) =>
                      /\ TopY(j, i) = BottomY(j, i)
                      /\ ~JsLt(row[j], Num(0))
                      /\ \A e \in 1..(j - 1) :
                            (~JsLt(row[e], Num(0)) /\ \A l \in (e + 1)..(j - 1) : JsLt(row[l], Num(0)))
                                => BottomY(j, i) = TopY(e, i)

\* the second key is disabled: its entry is 0 and its band is the line at
\* the top of the first key's band
C29_Witness ==
    /\ SelectionBound
    /\ Len(yKeys) = 2
    /\ Len(xData) >= 1
    /\ EnabledGet(seriesItemEnabled, yKeys[2]) = FALSE
    /\ yData[1][1] = Num(4)
    /\ yData[1][2] = Num(0)
    /\ TopY(1, 0) = Num(60)
    /\ BottomY(2, 0) = Num(60)
    /\ TopY(2, 0) = Num(60)

\* the keys switched off in an enablement map
DisabledKeys(enabled) == {k \in DOMAIN enabled : ~enabled[k]}

\* the positions of key k in yKeys
PositionsOf(k) == {j \in 1..Len(yKeys) : yKeys[j] = k}

\* a step that changes the enablement map changes the entry of one key
\* only and leaves yKeys, xData and yData as they are
ToggleFrame ==
    seriesItemEnabled' # seriesItemEnabled =>
        /\ DOMAIN seriesItemEnabled' = DOMAIN seriesItemEnabled
        /\ Cardinality({k \in DOMAIN seriesItemEnabled :
                            seriesItemEnabled'[k] # seriesItemEnabled[k]}) = 1
        /\ UNCHANGED <<yKeys, xData, yData>>

\* a completed update leaves the fill and stroke nodes of a disabled item
\* and the markers of a disabled key hidden, with one area datum per key
HiddenAfterUpdate ==
    (update /\ UpdateReady /\ ~updateThrew') =>
        /\ Len(fillSelection') = Len(yKeys)
        /\ Len(strokeSelection') = Len(yKeys)
        /\ \A k \in DisabledKeys(seriesItemEnabled) :
              /\ \A n \in 1..Len(fillSelection') :
                    fillSelection'[n].datum.itemId = k => ~fillSelection'[n].visible
              /\ \A n \in 1..Len(strokeSelection') :
                    strokeSelection'[n].datum.itemId = k => ~strokeSelection'[n].visible
              /\ \A n \in 1..Len(markerSelection') :
                    markerSelection'[n].datum.yKey = k => ~markerSelection'[n].visible

\* C30 as stated: toggleSeriesItem(k, e) changes the entry of k only and
\* leaves the other entries, yKeys, xData and yData unchanged; after the
\* next processData the column of a disabled key in yData is all 0; after a
\* completed update the fill, stroke and marker nodes of a disabled key are
\* not visible and there is still one area datum per value key.
C30_DisabledColumnIsZero ==
    [][ /\ ToggleFrame
        /\ processData =>
              \A k \in DisabledKeys(seriesItemEnabled) : \A j \in PositionsOf(k) :
                  \A i \in 1..Len(yData') : yData'[i][j] = Num(0)
        /\ HiddenAfterUpdate ]_vars

\* what the code does: the column of a disabled key is all 0 in yData as
\* built at lines 262-270; with normalization active line 294 divides that
\* 0 by the row's total of non-negative entries, so the entry of the final
\* yData is NaN in a row where that total is 0, and 0 in every other row;
\* the frame of the toggle and the hidden nodes are as stated.
DisabledColumnAsComputed ==
    [][ /\ ToggleFrame
        /\ processData =>
              \A k \in DisabledKeys(seriesItemEnabled) : \A j \in PositionsOf(k) :
                  \A i \in 1..Len(yData') :
                      /\ yDataUnscaled'[i][j] = Num(0)
                      /\ yData'[i][j] =
                            IF /\ NormalizationActive(normalizedTo)
                               /\ findMinMax(yDataUnscaled'[i]).max = Num(0)
                            THEN NaN
                            ELSE Num(0)
        /\ HiddenAfterUpdate ]_vars

====
